---- MODULE Spec2Model ----
(***************************************************************************)
(* Bookmark manager backend: collections, bookmarks, tags and their        *)
(* associations, as the services and repositories manipulate them.         *)
(*                                                                         *)
(* The relational store is the five tables below.  Every service function  *)
(* is a sequence of awaited database calls; each awaited call is one       *)
(* atomic step of the calling request (process), so that two requests may  *)
(* interleave exactly at the awaits.  The code opens no transaction around *)
(* the handlers modelled here.                                             *)
(***************************************************************************)
EXTENDS Integers, FiniteSets, Sequences, Bags, TLC

\* ---------------------------------------------------------------- bounds
MaxColl == 2
MaxBm == 3
MaxTag == 2
MaxCalls == 4
MaxParams == 2
MaxLogins == 7
MaxTicks == 2

\* ------------------------------------------------------ program constants
MaxAttempts == 10
MAX_FAILED_ATTEMPTS == 5
LOCKOUT_WINDOW_SECONDS == 15 * 60
LOCKOUT_DURATION_SECONDS == 15 * 60
AUTH_CODE_EXPIRY_MS == 10 * 60 * 1000
JWT_EXPIRES_IN == [value |-> 15, unit |-> "m"]
JWT_REFRESH_EXPIRES_IN == [value |-> 7, unit |-> "d"]

\* ------------------------------------------------------------- universes
Users == {"u1", "u2"}
Procs == {1, 2}
Titles == {"Unsorted", "A"}
Slugs == {"s1", "s2"}
None == "none"
TagNames == {<<"a">>, <<"A", " ">>, <<"b">>}

VARIABLES
    collections,    \* Collection table: id -> row
    bookmarks,      \* Bookmark table: id -> row
    tags,           \* Tag table: id -> row
    bookmarkTags,   \* BookmarkTag table: bag of <<bookmarkId, tagId>> rows
    permissions,    \* CollectionPermission table: <<collectionId, userId>> -> row
    nextCollId,     \* fresh-id sources (uuids are never reused)
    nextBmId,
    nextTagId,
    pc,             \* per request: the await it is suspended at
    req,            \* per request: the call and its arguments
    loc,            \* per request: local variables of the handler
    res,            \* per request: the value returned (at pc = "done")
    calls,          \* number of requests issued so far
    ensured,        \* history: <<ownerId, id>> pairs handed out as the default collection
    now,            \* the clock, in seconds
    redis,          \* Redis: key -> [value, expiresAt] (expiresAt 0: no expiry)
    authorizationCodes, \* the authorizationCodes Map: code -> AuthCodeData
    bound,          \* history: code -> the code_challenge it was created with
    granted,        \* history: the codes that yielded tokens, one entry per exchange
    failTimes       \* history: the times at which invalid credentials were submitted

oauthVars == <<authorizationCodes, bound, granted>>
authVars == <<now, redis, oauthVars, failTimes>>
dbVars == <<collections, bookmarks, tags, bookmarkTags, permissions,
            nextCollId, nextBmId, nextTagId, authVars>>
vars == <<collections, bookmarks, tags, bookmarkTags, permissions,
          nextCollId, nextBmId, nextTagId,
          pc, req, loc, res, calls, ensured, authVars>>

NoReq == [op |-> None]
NoLoc == [x |-> None]
NoRes == [code |-> None]

Init ==
    /\ collections = <<>>
    /\ bookmarks = <<>>
    /\ tags = <<>>
    /\ bookmarkTags = EmptyBag
    /\ permissions = <<>>
    /\ nextCollId = 1
    /\ nextBmId = 1
    /\ nextTagId = 1
    /\ pc = [p \in Procs |-> "idle"]
    /\ req = [p \in Procs |-> NoReq]
    /\ loc = [p \in Procs |-> NoLoc]
    /\ res = [p \in Procs |-> NoRes]
    /\ calls = 0
    /\ ensured = {}
    /\ now = 0
    /\ redis = <<>>
    /\ authorizationCodes = <<>>
    /\ bound = <<>>
    /\ granted = <<>>
    /\ failTimes = <<>>

\* ------------------------------------------------------- table helpers
Remove(f, k) == [x \in DOMAIN f \ {k} |-> f[x]]

\* (mutation: the findFirst does not filter on the owner)
FindCollectionByIdAndOwner_AnyOwner(id, ownerId) ==
    {c \in DOMAIN collections : c = id}

\* prisma.collection.findFirst({ where: { id, ownerId } })
\* (the set holding the row's id, empty for null)
FindCollectionByIdAndOwner(id, ownerId) ==
    {c \in DOMAIN collections : c = id /\ collections[c].ownerId = ownerId}

\* (mutation: the findFirst does not filter on the owner)
UnsortedOf_AnyOwner(ownerId) ==
    {c \in DOMAIN collections : collections[c].title = "Unsorted"}

\* prisma.collection.findFirst({ where: { ownerId, title: 'Unsorted' } }): the candidates
UnsortedOf(ownerId) ==
    {c \in DOMAIN collections :
        collections[c].ownerId = ownerId /\ collections[c].title = "Unsorted"}

\* prisma.collection.count({ where: { shareSlug } }) > 0
ShareSlugExists(shareSlug) ==
    \E c \in DOMAIN collections : collections[c].shareSlug = shareSlug

BookmarksIn(collectionId) ==
    {b \in DOMAIN bookmarks : bookmarks[b].collectionId = collectionId}

\* (mutation: no unique index on shareSlug)
ShareSlugUniqueOk_Always(id, slug) == TRUE

\* Collection.shareSlug is a unique field (findCollectionByShareSlug looks a row
\* up with findUnique({ where: { shareSlug } }); nulls excepted): a write of
\* `slug' to row `id' is accepted only if no other row holds it.
ShareSlugUniqueOk(id, slug) ==
    slug = None \/ \A c \in DOMAIN collections \ {id} : collections[c].shareSlug # slug

\* Schema: Bookmark.collectionId is a required foreign key; a bookmark row can
\* only reference an existing collection.
CollectionFkOk(collectionId) == collectionId \in DOMAIN collections

\* (mutation: the foreign key does not hold the collection row back)
CollectionDeleteRestricted_Never(id) == FALSE

\* Schema: deleting a collection that bookmarks still reference is refused
\* (the reference is never nulled and bookmarks are never cascaded away).
CollectionDeleteRestricted(id) == BookmarksIn(id) # {}

\* ------------------------------------------------- request bookkeeping
Finish(p, result) ==
    /\ pc' = [pc EXCEPT ![p] = "done"]
    /\ res' = [res EXCEPT ![p] = result]

Goto(p, label) ==
    /\ pc' = [pc EXCEPT ![p] = label]
    /\ res' = res

\* A request is issued, while the budget of requests lasts.
Budget == calls < MaxCalls /\ calls' = calls + 1

\* The handler has returned; the request slot is free again.
Return(p) ==
    /\ pc[p] = "done"
    /\ calls' = calls
    /\ pc' = [pc EXCEPT ![p] = "idle"]
    /\ req' = [req EXCEPT ![p] = NoReq]
    /\ loc' = [loc EXCEPT ![p] = NoLoc]
    /\ res' = [res EXCEPT ![p] = NoRes]
    /\ UNCHANGED <<dbVars, ensured>>

\* ------------------------------------------------------ createCollection
\* createCollectionForUser -> createCollection: the row is inserted with the
\* caller's isPublic and a null shareSlug.
NewCollection(ownerId, title, isPublic) ==
    [ownerId |-> ownerId, title |-> title, isPublic |-> isPublic, shareSlug |-> None]

CreateCollectionForUser(p, ownerId, title, isPublic) ==
    /\ pc[p] = "idle"
    /\ Budget
    /\ nextCollId <= MaxColl
    /\ collections' = collections @@ (nextCollId :> NewCollection(ownerId, title, isPublic))
    /\ nextCollId' = nextCollId + 1
    /\ req' = [req EXCEPT ![p] = [op |-> "createCollection", ownerId |-> ownerId]]
    /\ Finish(p, [code |-> "ok", id |-> nextCollId])
    /\ UNCHANGED <<authVars, permissions, bookmarks, tags, bookmarkTags, nextBmId, nextTagId, loc, ensured>>

\* ------------------------------------------- getOrCreateUnsortedCollection
\* Where the caller of getOrCreateUnsortedCollection resumes with the id.
AfterUnsorted(p, id) ==
    /\ ensured' = ensured \cup {<<req[p].ownerId, id>>}
    /\ IF req[p].op = "ensureDefault"
       THEN /\ Finish(p, [code |-> "ok", id |-> id])
            /\ loc' = loc
       ELSE /\ Goto(p, "dc_move")
            /\ loc' = [loc EXCEPT ![p].unsortedId = id]

\* findFirst: an existing "Unsorted" row of the owner, else go on to create one.
GocFind(p) ==
    /\ pc[p] = "goc_find"
    /\ calls' = calls
    /\ IF UnsortedOf(req[p].ownerId) # {}
       THEN \E c \in UnsortedOf(req[p].ownerId) : AfterUnsorted(p, c)
       ELSE Goto(p, "goc_create") /\ UNCHANGED <<loc, ensured>>
    /\ UNCHANGED <<dbVars, req>>

GocCreate(p) ==
    /\ pc[p] = "goc_create"
    /\ calls' = calls
    /\ nextCollId <= MaxColl
    /\ collections' = collections @@
           (nextCollId :> NewCollection(req[p].ownerId, "Unsorted", FALSE))
    /\ nextCollId' = nextCollId + 1
    /\ AfterUnsorted(p, nextCollId)
    /\ UNCHANGED <<authVars, permissions, bookmarks, tags, bookmarkTags, nextBmId, nextTagId, req>>

\* ensureDefaultCollection(ownerId)
EnsureDefaultCollection(p, ownerId) ==
    /\ pc[p] = "idle"
    /\ Budget
    /\ req' = [req EXCEPT ![p] = [op |-> "ensureDefault", ownerId |-> ownerId]]
    /\ Goto(p, "goc_find")
    /\ UNCHANGED <<dbVars, loc, ensured>>

\* ------------------------------------------------------ updateCollection
\* prisma.collection.update({ where: { id }, data }): absent fields are kept.
UpdatedCollection(row, data) ==
    [f \in DOMAIN row |-> IF f \in DOMAIN data THEN data[f] ELSE row[f]]

\* updateCollectionForUser -> updateCollection: the ownership check.
UpdateCollectionForUser(p, id, ownerId, data) ==
    /\ pc[p] = "idle"
    /\ Budget
    /\ req' = [req EXCEPT ![p] =
                 [op |-> "updateCollection", id |-> id, ownerId |-> ownerId, data |-> data]]
    /\ IF FindCollectionByIdAndOwner(id, ownerId) = {}
       THEN Finish(p, [code |-> "COLLECTION_NOT_FOUND"])
       ELSE Goto(p, "uc_update")
    /\ UNCHANGED <<dbVars, loc, ensured>>

\* updateCollection: the write.  Updating a row that is gone makes the call throw.
UcUpdate(p) ==
    /\ pc[p] = "uc_update"
    /\ calls' = calls
    /\ IF req[p].id \notin DOMAIN collections
       THEN /\ Finish(p, [code |-> "THROWN"])
            /\ collections' = collections
       ELSE /\ collections' = [collections EXCEPT
                                 ![req[p].id] = UpdatedCollection(@, req[p].data)]
            /\ Finish(p, [code |-> "ok", id |-> req[p].id])
    /\ UNCHANGED <<authVars, permissions, bookmarks, tags, bookmarkTags, nextCollId, nextBmId, nextTagId,
                   req, loc, ensured>>

\* ------------------------------------------------------ deleteCollection
\* deleteCollectionForUser, up to its first await on getOrCreateUnsortedCollection.
\* loc.pre and loc.preAll record the bookmarks of the collection, and all
\* bookmarks, as they were when the call was made.
DeleteCollectionForUser(p, id, ownerId) ==
    /\ pc[p] = "idle"
    /\ Budget
    /\ req' = [req EXCEPT ![p] = [op |-> "deleteCollection", id |-> id, ownerId |-> ownerId]]
    /\ IF FindCollectionByIdAndOwner(id, ownerId) = {}
       THEN Finish(p, [code |-> "COLLECTION_NOT_FOUND"]) /\ loc' = loc
       ELSE IF collections[id].title = "Unsorted"
       THEN Finish(p, [code |-> "COLLECTION_CANNOT_DELETE_UNSORTED"]) /\ loc' = loc
       ELSE /\ Goto(p, "goc_find")
            /\ loc' = [loc EXCEPT ![p] = [unsortedId |-> 0, movedCount |-> 0, moved |-> {},
                                          pre |-> BookmarksIn(id), preAll |-> DOMAIN bookmarks]]
    /\ UNCHANGED <<dbVars, ensured>>

\* (mutation: the updateMany matches nothing)
MoveBookmarksToCollection_None(fromCollectionId, toCollectionId) == bookmarks

\* prisma.bookmark.updateMany({ where: { collectionId: from }, data: { collectionId: to } })
MoveBookmarksToCollection(fromCollectionId, toCollectionId) ==
    [b \in DOMAIN bookmarks |->
        IF bookmarks[b].collectionId = fromCollectionId
        THEN [bookmarks[b] EXCEPT !.collectionId = toCollectionId]
        ELSE bookmarks[b]]

DcMove(p) ==
    /\ pc[p] = "dc_move"
    /\ calls' = calls
    /\ IF BookmarksIn(req[p].id) # {} /\ ~CollectionFkOk(loc[p].unsortedId)
       THEN /\ Finish(p, [code |-> "THROWN"])
            /\ UNCHANGED <<bookmarks, loc>>
       ELSE /\ bookmarks' = MoveBookmarksToCollection(req[p].id, loc[p].unsortedId)
            /\ loc' = [loc EXCEPT ![p].movedCount = Cardinality(BookmarksIn(req[p].id)),
                                  ![p].moved = BookmarksIn(req[p].id)]
            /\ Goto(p, "dc_find2")
    /\ UNCHANGED <<authVars, permissions, collections, tags, bookmarkTags, nextCollId, nextBmId, nextTagId,
                   req, ensured>>

\* deleteCollection (repository): the ownership check; its false is ignored by the service.
DcFind2(p) ==
    /\ pc[p] = "dc_find2"
    /\ calls' = calls
    /\ IF FindCollectionByIdAndOwner(req[p].id, req[p].ownerId) = {}
       THEN Finish(p, [code |-> "ok", movedBookmarks |-> loc[p].movedCount])
       ELSE Goto(p, "dc_delete")
    /\ UNCHANGED <<dbVars, req, loc, ensured>>

\* deleteCollection (repository): prisma.collection.delete({ where: { id } })
DcDelete(p) ==
    /\ pc[p] = "dc_delete"
    /\ calls' = calls
    /\ IF req[p].id \notin DOMAIN collections \/ CollectionDeleteRestricted(req[p].id)
       THEN /\ Finish(p, [code |-> "THROWN"])
            /\ collections' = collections
       ELSE /\ collections' = Remove(collections, req[p].id)
            /\ Finish(p, [code |-> "ok", movedBookmarks |-> loc[p].movedCount])
    /\ UNCHANGED <<authVars, permissions, bookmarks, tags, bookmarkTags, nextCollId, nextBmId, nextTagId,
                   req, loc, ensured>>

\* ---------------------------------------------------------- makePublic
\* (mutation: the shortcut is never taken)
AlreadyPublic_Never(existing) == FALSE

\* existing.isPublic && existing.shareSlug
AlreadyPublic(existing) == existing.isPublic /\ existing.shareSlug # None

\* makeCollectionPublic: ownership check and the already-public shortcut.
MakeCollectionPublic(p, id, ownerId) ==
    /\ pc[p] = "idle"
    /\ Budget
    /\ req' = [req EXCEPT ![p] = [op |-> "makePublic", id |-> id, ownerId |-> ownerId]]
    /\ IF FindCollectionByIdAndOwner(id, ownerId) = {}
       THEN Finish(p, [code |-> "COLLECTION_NOT_FOUND"]) /\ loc' = loc
       ELSE IF AlreadyPublic(collections[id])
       THEN /\ Finish(p, [code |-> "ok", id |-> id, shareSlug |-> collections[id].shareSlug])
            /\ loc' = loc
       ELSE /\ Goto(p, "mp_gen")
            /\ loc' = [loc EXCEPT ![p] = [attempt |-> 0, shareSlug |-> None]]
    /\ UNCHANGED <<dbVars, ensured>>

\* (mutation: the loop runs once more)
AttemptsLeft_OneMore(attempt) == attempt < MaxAttempts

\* attempt++ ; attempt < maxAttempts
AttemptsLeft(attempt) == attempt + 1 < MaxAttempts

\* generateUniqueShareSlug: one pass of the loop, a random candidate and the
\* shareSlugExists query.  Running out of attempts throws, which
\* makeCollectionPublic catches.
MpGen(p) ==
    /\ pc[p] = "mp_gen"
    /\ calls' = calls
    /\ \E slug \in Slugs :
         IF ~ShareSlugExists(slug)
         THEN /\ Goto(p, "mp_find2")
              /\ loc' = [loc EXCEPT ![p].shareSlug = slug]
         ELSE IF AttemptsLeft(loc[p].attempt)
         THEN /\ Goto(p, "mp_gen")
              /\ loc' = [loc EXCEPT ![p].attempt = @ + 1]
         ELSE /\ Finish(p, [code |-> "COLLECTION_SLUG_GENERATION_FAILED"])
              /\ loc' = loc
    /\ UNCHANGED <<dbVars, req, ensured>>

\* updateCollection (repository) as called by makeCollectionPublic: the
\* ownership check; its null is passed on as a success without a collection.
MpFind2(p) ==
    /\ pc[p] = "mp_find2"
    /\ calls' = calls
    /\ IF FindCollectionByIdAndOwner(req[p].id, req[p].ownerId) = {}
       THEN Finish(p, [code |-> "ok", id |-> 0, shareSlug |-> None])
       ELSE Goto(p, "mp_update")
    /\ UNCHANGED <<dbVars, req, loc, ensured>>

\* updateCollection (repository): the write of { isPublic: true, shareSlug }.
\* A missing row or a violated unique constraint throws; the catch of
\* makeCollectionPublic turns any throw into SLUG_GENERATION_FAILED.
MpUpdate(p) ==
    /\ pc[p] = "mp_update"
    /\ calls' = calls
    /\ IF req[p].id \notin DOMAIN collections
          \/ ~ShareSlugUniqueOk(req[p].id, loc[p].shareSlug)
       THEN /\ Finish(p, [code |-> "COLLECTION_SLUG_GENERATION_FAILED"])
            /\ collections' = collections
       ELSE /\ collections' = [collections EXCEPT ![req[p].id] =
                 UpdatedCollection(@, [isPublic |-> TRUE, shareSlug |-> loc[p].shareSlug])]
            /\ Finish(p, [code |-> "ok", id |-> req[p].id, shareSlug |-> loc[p].shareSlug])
    /\ UNCHANGED <<authVars, permissions, bookmarks, tags, bookmarkTags, nextCollId, nextBmId, nextTagId,
                   req, loc, ensured>>

\* What a request holds once one of its queries was rejected by the storage.
StorageFailed == [x |-> "rejected"]

\* makeCollectionPublic: a query inside the try block (shareSlugExists, or the
\* two of updateCollection) rejects because the storage is unreachable; the
\* catch block answers as it does for any throw, and nothing is tried again.
MpStorageFails(p) ==
    /\ pc[p] \in {"mp_gen", "mp_find2", "mp_update"}
    /\ calls' = calls
    /\ Finish(p, [code |-> "COLLECTION_SLUG_GENERATION_FAILED"])
    /\ loc' = [loc EXCEPT ![p] = StorageFailed]
    /\ UNCHANGED <<dbVars, req, ensured>>

\* --------------------------------------------------------- makePrivate
MakeCollectionPrivate(p, id, ownerId) ==
    /\ pc[p] = "idle"
    /\ Budget
    /\ req' = [req EXCEPT ![p] = [op |-> "makePrivate", id |-> id, ownerId |-> ownerId]]
    /\ IF FindCollectionByIdAndOwner(id, ownerId) = {}
       THEN Finish(p, [code |-> "COLLECTION_NOT_FOUND"])
       ELSE Goto(p, "mv_find2")
    /\ UNCHANGED <<dbVars, loc, ensured>>

MvFind2(p) ==
    /\ pc[p] = "mv_find2"
    /\ calls' = calls
    /\ IF FindCollectionByIdAndOwner(req[p].id, req[p].ownerId) = {}
       THEN Finish(p, [code |-> "ok", id |-> 0])
       ELSE Goto(p, "mv_update")
    /\ UNCHANGED <<dbVars, req, loc, ensured>>

MvUpdate(p) ==
    /\ pc[p] = "mv_update"
    /\ calls' = calls
    /\ IF req[p].id \notin DOMAIN collections
       THEN /\ Finish(p, [code |-> "THROWN"])
            /\ collections' = collections
       ELSE /\ collections' = [collections EXCEPT ![req[p].id] =
                 UpdatedCollection(@, [isPublic |-> FALSE, shareSlug |-> None])]
            /\ Finish(p, [code |-> "ok", id |-> req[p].id])
    /\ UNCHANGED <<authVars, permissions, bookmarks, tags, bookmarkTags, nextCollId, nextBmId, nextTagId,
                   req, loc, ensured>>

\* ------------------------------------------------------- tag normalizer
\* Tag names are sequences of one-character strings.
ToLowerCase(ch) == IF ch = "A" THEN "a" ELSE IF ch = "B" THEN "b" ELSE ch

RECURSIVE TrimStart(_)
TrimStart(s) == IF s # <<>> /\ Head(s) = " " THEN TrimStart(Tail(s)) ELSE s

RECURSIVE TrimEnd(_)
TrimEnd(s) ==
    IF s # <<>> /\ s[Len(s)] = " " THEN TrimEnd(SubSeq(s, 1, Len(s) - 1)) ELSE s

Trim(s) == TrimEnd(TrimStart(s))

\* name.toLowerCase().trim()
NormalizeTagName(name) == Trim([i \in 1..Len(name) |-> ToLowerCase(name[i])])

\* prisma.tag.findFirst({ where: { normalizedName, ownerId } }): the candidates
FindTagByNormalizedName(normalizedName, ownerId) ==
    {t \in DOMAIN tags :
        tags[t].ownerId = ownerId /\ tags[t].normalizedName = normalizedName}

\* (mutation: the lookup does not filter on the owner)
FindTagByIdAndOwner_AnyOwner(id, ownerId) == {t \in DOMAIN tags : t = id}

\* prisma.tag.findFirst({ where: { id, ownerId } }) (the set holding the id, or empty)
FindTagByIdAndOwner(id, ownerId) ==
    {t \in DOMAIN tags : t = id /\ tags[t].ownerId = ownerId}

\* (mutation: no unique index on (ownerId, normalizedName))
TagUniqueOk_Always(ownerId, normalizedName) == TRUE

\* Schema: (ownerId, normalizedName) is unique among tags.
TagUniqueOk(ownerId, normalizedName) ==
    FindTagByNormalizedName(normalizedName, ownerId) = {}

NewTag(ownerId, name) ==
    [ownerId |-> ownerId, name |-> Trim(name), normalizedName |-> NormalizeTagName(name)]

\* prisma.bookmarkTag.createMany({ data: rows, skipDuplicates: true })
CreateManySkipDuplicates(rows) ==
    bookmarkTags (+) SetToBag({r \in rows : ~BagIn(r, bookmarkTags)})

\* Schema: a BookmarkTag row references an existing bookmark and an existing tag.
BookmarkTagFkOk(rows) ==
    \A r \in rows : r[1] \in DOMAIN bookmarks /\ r[2] \in DOMAIN tags

\* -------------------------------------------------------- url normalizer
\* A URL is held in its parts, as the WHATWG parser splits the string:
\* protocol, hostname, port, pathname (the segments between the slashes, a
\* trailing empty segment for a trailing slash), search (the <<key, value>>
\* pairs in order) and hash.

\* TRACKING_PARAMS, and the keys caught by the utm_, fb_ and hsa_ prefixes
\* (those among the keys in use).
TRACKING_PARAMS == {"utm_source", "utm_campaign", "fbclid", "ref"}

\* key.toLowerCase(), for the keys in use
LowerKey(key) == IF key = "UTM_Source" THEN "utm_source" ELSE key

\* hostname.toLowerCase(), for the hosts in use
LowerHost(hostname) == IF hostname = "EXAMPLE.com" THEN "example.com" ELSE hostname

\* Array.prototype.sort() on keys: their rank in code-unit order.
KeyRank(key) ==
    CASE key = "UTM_Source" -> 1
      [] key = "a" -> 2
      [] key = "b" -> 3
      [] key = "fbclid" -> 4
      [] key = "ref" -> 5
      [] key = "utm_campaign" -> 6
      [] key = "utm_source" -> 7
      [] OTHER -> 8

\* validateURL: only http and https pass.
ValidateURL(url) == url.protocol \in {"http:", "https:"}

\* new URL(url): the parser lowercases the host and drops the scheme's own port.
DefaultPort(protocol) == IF protocol = "http:" THEN "80" ELSE "443"

ParseURL(url) ==
    [url EXCEPT !.hostname = LowerHost(@),
                !.port = IF @ = DefaultPort(url.protocol) THEN "" ELSE @]

RECURSIVE SelectPairs(_, _)
\* The pairs of a query whose key is in `keep', in order.
SelectPairs(search, keep) ==
    IF search = <<>> THEN <<>>
    ELSE IF Head(search)[1] \in keep
         THEN <<Head(search)>> \o SelectPairs(Tail(search), keep)
         ELSE SelectPairs(Tail(search), keep)

\* The test on one key: in the list, or caught by a prefix.
IsTrackingKey(key) == LowerKey(key) \in TRACKING_PARAMS

\* keysToRemove.forEach(key => params.delete(key))
RemoveTracking(search) ==
    SelectPairs(search, {k \in {search[i][1] : i \in 1..Len(search)} : ~IsTrackingKey(k)})

RECURSIVE SortKeys(_)
\* Array.from(params.keys()).sort(): one entry per pair, repeated keys repeated.
SortKeys(keys) ==
    IF keys = <<>> THEN <<>>
    ELSE LET m == CHOOSE i \in 1..Len(keys) :
                    \A j \in 1..Len(keys) :
                        KeyRank(keys[i]) < KeyRank(keys[j])
                        \/ (KeyRank(keys[i]) = KeyRank(keys[j]) /\ i <= j)
         IN <<keys[m]>> \o
            SortKeys([i \in 1..(Len(keys) - 1) |-> IF i < m THEN keys[i] ELSE keys[i + 1]])

RECURSIVE AppendAll(_, _)
\* for (const key of sortedKeys) for (const value of params.getAll(key)) append
AppendAll(sortedKeys, search) ==
    IF sortedKeys = <<>> THEN <<>>
    ELSE SelectPairs(search, {Head(sortedKeys)}) \o AppendAll(Tail(sortedKeys), search)

SortParams(search) ==
    AppendAll(SortKeys([i \in 1..Len(search) |-> search[i][1]]), search)

RECURSIVE StripSlashes(_)
\* pathname.replace(/\/+$/, '')
StripSlashes(pathname) ==
    IF pathname # <<>> /\ pathname[Len(pathname)] = ""
    THEN StripSlashes(SubSeq(pathname, 1, Len(pathname) - 1))
    ELSE pathname

\* Step 6; a path emptied by it is the root again once assigned to the URL.
RemoveTrailingSlashes(pathname) ==
    IF Len(pathname) >= 2 /\ pathname[Len(pathname)] = ""
    THEN IF StripSlashes(pathname) = <<>> THEN <<"">> ELSE StripSlashes(pathname)
    ELSE pathname

\* decodeURIComponent of one segment, then the split on "/", for the segments
\* in use: an escaped unreserved character comes out unescaped, and an escaped
\* slash (%2F) comes out as a separator.
DecodeSegment(segment) ==
    IF segment = "p%61ge" THEN <<"page">>
    ELSE IF segment = "a%2F" THEN <<"a", "">>
    ELSE <<segment>>

RECURSIVE Recode(_)
\* Step 7: decodeURIComponent(pathname).split('/').map(encodeURIComponent).join('/')
Recode(pathname) ==
    IF pathname = <<>> THEN <<>>
    ELSE DecodeSegment(Head(pathname)) \o Recode(Tail(pathname))

\* normalizeURL, for a URL that validates.
NormalizeURL(url) ==
    LET parsed == ParseURL(url) IN
    [protocol |-> parsed.protocol,
     hostname |-> LowerHost(parsed.hostname),
     port |-> IF parsed.port = DefaultPort(parsed.protocol) THEN "" ELSE parsed.port,
     search |-> SortParams(RemoveTracking(parsed.search)),
     pathname |-> Recode(RemoveTrailingSlashes(parsed.pathname)),
     hash |-> ""]

\* normalizeURL called on the URL the request holds: the normalized URL, or the
\* error thrown by the validation.
NormalizeUrl(p) ==
    /\ pc[p] = "idle"
    /\ req[p].op = "normalizeURL"
    /\ IF ValidateURL(req[p].url)
       THEN Finish(p, [code |-> "ok", url |-> NormalizeURL(req[p].url)])
       ELSE Finish(p, [code |-> "INVALID_URL"])
    /\ UNCHANGED <<dbVars, req, loc, calls, ensured>>

\* normalizeURL called on its own result.
NormalizeAgain(p) ==
    /\ pc[p] = "done"
    /\ req[p].op = "normalizeURL"
    /\ res[p].code = "ok"
    /\ pc' = [pc EXCEPT ![p] = "again"]
    /\ res' = [res EXCEPT ![p] = [code |-> "ok", url |-> res[p].url,
                                  again |-> NormalizeURL(res[p].url)]]
    /\ UNCHANGED <<dbVars, req, loc, calls, ensured>>

\* prisma.bookmark.findMany({ where: { normalizedUrl, ownerId } })
FindBookmarksByNormalizedUrl(normalizedUrl, ownerId) ==
    {b \in DOMAIN bookmarks :
        bookmarks[b].normalizedUrl = normalizedUrl /\ bookmarks[b].ownerId = ownerId}

\* -------------------------------------------------------- createBookmark
\* isFavorite and sortOrder are not set by createBookmark: the columns' defaults.
NewBookmark(ownerId, collectionId, normalizedUrl, isDuplicate) ==
    [ownerId |-> ownerId, collectionId |-> collectionId,
     normalizedUrl |-> normalizedUrl, isDuplicate |-> isDuplicate,
     isFavorite |-> FALSE, sortOrder |-> 0]

\* (mutation: the lookup finds no earlier bookmark)
IsDuplicate_Never(normalizedUrl, ownerId) == FALSE

\* existingBookmarks.length > 0
IsDuplicate(normalizedUrl, ownerId) ==
    FindBookmarksByNormalizedUrl(normalizedUrl, ownerId) # {}

\* createBookmarkForUser up to its first await: normalizeURL (which throws on
\* a URL that does not validate) and the duplicate lookup.
CreateBookmarkForUser(p, ownerId, url, collectionId, tagNames) ==
    /\ pc[p] = "idle"
    /\ Budget
    /\ nextBmId <= MaxBm
    /\ req' = [req EXCEPT ![p] = [op |-> "createBookmark", ownerId |-> ownerId, url |-> url,
                                  collectionId |-> collectionId, tags |-> tagNames]]
    /\ IF ~ValidateURL(url)
       THEN Finish(p, [code |-> "INVALID_URL"]) /\ loc' = loc
       ELSE /\ Goto(p, "cb_coll")
            /\ loc' = [loc EXCEPT ![p] =
                         [isDuplicate |-> IsDuplicate(NormalizeURL(url), ownerId),
                          collectionId |-> 0]]
    /\ UNCHANGED <<dbVars, ensured>>

\* (mutation: an explicit collectionId is used without the lookup)
CbColl_Unverified(p) ==
    /\ pc[p] = "cb_coll"
    /\ calls' = calls
    /\ IF req[p].collectionId = 0
       THEN IF UnsortedOf(req[p].ownerId) # {}
            THEN \E c \in UnsortedOf(req[p].ownerId) :
                    /\ Goto(p, "cb_create")
                    /\ loc' = [loc EXCEPT ![p].collectionId = c]
                    /\ ensured' = ensured \cup {<<req[p].ownerId, c>>}
            ELSE /\ Goto(p, "cbd_create")
                 /\ UNCHANGED <<loc, ensured>>
       ELSE /\ ensured' = ensured
            /\ Goto(p, "cb_create")
            /\ loc' = [loc EXCEPT ![p].collectionId = req[p].collectionId]
    /\ UNCHANGED <<dbVars, req>>

\* The collection lookup: collectionId 0 stands for an omitted collectionId
\* (getOrCreateDefaultCollection's findFirst), any other value is verified
\* against the caller's collections.
CbColl(p) ==
    /\ pc[p] = "cb_coll"
    /\ calls' = calls
    /\ IF req[p].collectionId = 0
       THEN IF UnsortedOf(req[p].ownerId) # {}
            THEN \E c \in UnsortedOf(req[p].ownerId) :
                    /\ Goto(p, "cb_create")
                    /\ loc' = [loc EXCEPT ![p].collectionId = c]
                    /\ ensured' = ensured \cup {<<req[p].ownerId, c>>}
            ELSE /\ Goto(p, "cbd_create")
                 /\ UNCHANGED <<loc, ensured>>
       ELSE /\ ensured' = ensured
            /\ IF FindCollectionByIdAndOwner(req[p].collectionId, req[p].ownerId) = {}
               THEN Finish(p, [code |-> "COLLECTION_NOT_FOUND"]) /\ loc' = loc
               ELSE /\ Goto(p, "cb_create")
                    /\ loc' = [loc EXCEPT ![p].collectionId = req[p].collectionId]
    /\ UNCHANGED <<dbVars, req>>

\* getOrCreateDefaultCollection: the create branch.
CbdCreate(p) ==
    /\ pc[p] = "cbd_create"
    /\ calls' = calls
    /\ nextCollId <= MaxColl
    /\ collections' = collections @@
           (nextCollId :> NewCollection(req[p].ownerId, "Unsorted", FALSE))
    /\ nextCollId' = nextCollId + 1
    /\ ensured' = ensured \cup {<<req[p].ownerId, nextCollId>>}
    /\ loc' = [loc EXCEPT ![p].collectionId = nextCollId]
    /\ Goto(p, "cb_create")
    /\ UNCHANGED <<authVars, permissions, bookmarks, tags, bookmarkTags, nextBmId, nextTagId, req>>

\* createBookmark (repository): the insert; then on to the tags, if any.
CbCreate(p) ==
    /\ pc[p] = "cb_create"
    /\ calls' = calls
    /\ nextBmId <= MaxBm
    /\ IF ~CollectionFkOk(loc[p].collectionId)
       THEN /\ Finish(p, [code |-> "THROWN"])
            /\ UNCHANGED <<bookmarks, nextBmId, loc>>
       ELSE /\ bookmarks' = bookmarks @@
                   (nextBmId :> NewBookmark(req[p].ownerId, loc[p].collectionId,
                                            NormalizeURL(req[p].url), loc[p].isDuplicate))
            /\ nextBmId' = nextBmId + 1
            /\ IF req[p].tags = <<>>
               THEN Finish(p, [code |-> "ok", id |-> nextBmId]) /\ loc' = loc
               ELSE /\ Goto(p, "cb_tagfind")
                    /\ loc' = [loc EXCEPT ![p] = [collectionId |-> loc[p].collectionId,
                                 bookmarkId |-> nextBmId, i |-> 1, tagIds |-> {}]]
    /\ UNCHANGED <<authVars, permissions, collections, tags, bookmarkTags, nextCollId, nextTagId, req, ensured>>

\* getOrCreateTags: where the loop goes once tag id `t' is pushed.
TagResolved(p, t) ==
    /\ loc' = [loc EXCEPT ![p].tagIds = @ \cup {t}, ![p].i = @ + 1]
    /\ Goto(p, IF loc[p].i < Len(req[p].tags) THEN "cb_tagfind" ELSE "cb_addtags")

\* getOrCreateTags: the findFirst of one pass.
CbTagFind(p) ==
    /\ pc[p] = "cb_tagfind"
    /\ calls' = calls
    /\ LET found == FindTagByNormalizedName(NormalizeTagName(req[p].tags[loc[p].i]),
                                            req[p].ownerId)
       IN IF found # {}
          THEN \E t \in found : TagResolved(p, t)
          ELSE Goto(p, "cb_tagcreate") /\ loc' = loc
    /\ UNCHANGED <<dbVars, req, ensured>>

\* getOrCreateTags: the create of one pass.
CbTagCreate(p) ==
    /\ pc[p] = "cb_tagcreate"
    /\ calls' = calls
    /\ nextTagId <= MaxTag
    /\ LET name == req[p].tags[loc[p].i]
       IN IF ~TagUniqueOk(req[p].ownerId, NormalizeTagName(name))
          THEN /\ Finish(p, [code |-> "THROWN"])
               /\ UNCHANGED <<tags, nextTagId, loc>>
          ELSE /\ tags' = tags @@ (nextTagId :> NewTag(req[p].ownerId, name))
               /\ nextTagId' = nextTagId + 1
               /\ TagResolved(p, nextTagId)
    /\ UNCHANGED <<authVars, permissions, collections, bookmarks, bookmarkTags, nextCollId, nextBmId, req, ensured>>

\* addTagsToBookmark
CbAddTags(p) ==
    /\ pc[p] = "cb_addtags"
    /\ calls' = calls
    /\ LET rows == {<<loc[p].bookmarkId, t>> : t \in loc[p].tagIds}
       IN IF ~BookmarkTagFkOk(rows)
          THEN /\ Finish(p, [code |-> "THROWN"])
               /\ bookmarkTags' = bookmarkTags
          ELSE /\ bookmarkTags' = CreateManySkipDuplicates(rows)
               /\ Finish(p, [code |-> "ok", id |-> loc[p].bookmarkId])
    /\ UNCHANGED <<authVars, permissions, collections, bookmarks, tags, nextCollId, nextBmId, nextTagId,
                   req, loc, ensured>>

\* -------------------------------------------------------- updateBookmark
\* updateBookmarkForUser with data = { collectionId }: the collection check.
UpdateBookmarkForUser(p, id, ownerId, collectionId) ==
    /\ pc[p] = "idle"
    /\ Budget
    /\ req' = [req EXCEPT ![p] = [op |-> "updateBookmark", id |-> id, ownerId |-> ownerId,
                                  collectionId |-> collectionId]]
    /\ IF FindCollectionByIdAndOwner(collectionId, ownerId) = {}
       THEN Finish(p, [code |-> "COLLECTION_NOT_FOUND"])
       ELSE Goto(p, "ub_find")
    /\ UNCHANGED <<dbVars, loc, ensured>>

\* updateBookmark (repository): findBookmarkByIdAndOwner
UbFind(p) ==
    /\ pc[p] = "ub_find"
    /\ calls' = calls
    /\ IF req[p].id \in DOMAIN bookmarks /\ bookmarks[req[p].id].ownerId = req[p].ownerId
       THEN Goto(p, "ub_update")
       ELSE Finish(p, [code |-> "BOOKMARK_NOT_FOUND"])
    /\ UNCHANGED <<dbVars, req, loc, ensured>>

\* updateBookmark (repository): prisma.bookmark.update({ where: { id }, data })
UbUpdate(p) ==
    /\ pc[p] = "ub_update"
    /\ calls' = calls
    /\ IF req[p].id \notin DOMAIN bookmarks \/ ~CollectionFkOk(req[p].collectionId)
       THEN /\ Finish(p, [code |-> "THROWN"])
            /\ bookmarks' = bookmarks
       ELSE /\ bookmarks' = [bookmarks EXCEPT ![req[p].id].collectionId = req[p].collectionId]
            /\ Finish(p, [code |-> "ok", id |-> req[p].id])
    /\ UNCHANGED <<authVars, permissions, collections, tags, bookmarkTags, nextCollId, nextBmId, nextTagId,
                   req, loc, ensured>>

\* ------------------------------------------------------------ createTag
\* createTagForUser: the lookup by normalized name.
CreateTagForUser(p, ownerId, name) ==
    /\ pc[p] = "idle"
    /\ Budget
    /\ nextTagId <= MaxTag
    /\ req' = [req EXCEPT ![p] = [op |-> "createTag", ownerId |-> ownerId, name |-> name]]
    /\ IF FindTagByNormalizedName(NormalizeTagName(name), ownerId) # {}
       THEN Finish(p, [code |-> "TAG_ALREADY_EXISTS"])
       ELSE Goto(p, "ct_create")
    /\ UNCHANGED <<dbVars, loc, ensured>>

\* createTag (repository)
CtCreate(p) ==
    /\ pc[p] = "ct_create"
    /\ calls' = calls
    /\ nextTagId <= MaxTag
    /\ IF ~TagUniqueOk(req[p].ownerId, NormalizeTagName(req[p].name))
       THEN /\ Finish(p, [code |-> "THROWN"])
            /\ UNCHANGED <<tags, nextTagId>>
       ELSE /\ tags' = tags @@ (nextTagId :> NewTag(req[p].ownerId, req[p].name))
            /\ nextTagId' = nextTagId + 1
            /\ Finish(p, [code |-> "ok", id |-> nextTagId])
    /\ UNCHANGED <<authVars, permissions, collections, bookmarks, bookmarkTags, nextCollId, nextBmId,
                   req, loc, ensured>>

\* ------------------------------------------------------------ updateTag
\* updateTagForUser with data = { name }: the lookup of a conflicting tag.
UpdateTagForUser(p, id, ownerId, name) ==
    /\ pc[p] = "idle"
    /\ Budget
    /\ req' = [req EXCEPT ![p] = [op |-> "updateTag", id |-> id, ownerId |-> ownerId,
                                  name |-> name]]
    /\ LET existing == FindTagByNormalizedName(NormalizeTagName(name), ownerId)
       IN \/ /\ existing \ {id} # {}
             /\ Finish(p, [code |-> "TAG_ALREADY_EXISTS"])
          \/ /\ existing \subseteq {id}
             /\ Goto(p, "ut_find")
    /\ UNCHANGED <<dbVars, loc, ensured>>

\* updateTag (repository): findTagByIdAndOwner
UtFind(p) ==
    /\ pc[p] = "ut_find"
    /\ calls' = calls
    /\ IF FindTagByIdAndOwner(req[p].id, req[p].ownerId) = {}
       THEN Finish(p, [code |-> "TAG_NOT_FOUND"])
       ELSE Goto(p, "ut_update")
    /\ UNCHANGED <<dbVars, req, loc, ensured>>

\* updateTag (repository): prisma.tag.update({ where: { id }, data }); it throws
\* when the row is gone or the unique index refuses the new normalizedName.
UtUpdate(p) ==
    /\ pc[p] = "ut_update"
    /\ calls' = calls
    /\ LET normalizedName == NormalizeTagName(req[p].name) IN
       IF \/ req[p].id \notin DOMAIN tags
          \/ /\ tags[req[p].id].normalizedName # normalizedName
             /\ ~TagUniqueOk(tags[req[p].id].ownerId, normalizedName)
       THEN Finish(p, [code |-> "THROWN"]) /\ tags' = tags
       ELSE /\ tags' = [tags EXCEPT ![req[p].id].name = Trim(req[p].name),
                                    ![req[p].id].normalizedName = normalizedName]
            /\ Finish(p, [code |-> "ok", id |-> req[p].id])
    /\ UNCHANGED <<authVars, permissions, collections, bookmarks, bookmarkTags, nextCollId, nextBmId,
                   nextTagId, req, loc, ensured>>

\* ------------------------------------------------------------ mergeTags
\* getBookmarkIdsByTag: the bookmark ids of the rows of the tag ...
GetBookmarkIdsByTag(tagId) ==
    {r[1] : r \in {x \in BagToSet(bookmarkTags) : x[2] = tagId}}

\* ... and how many such rows there are (the length of the returned array).
CountRowsByTag(tagId) ==
    BagCardinality([r \in {x \in BagToSet(bookmarkTags) : x[2] = tagId} |-> bookmarkTags[r]])

\* (mutation: no source bookmark is linked to the target)
BookmarksToLink_None(sourceBookmarkIds, targetBookmarkIds) == {}

\* sourceBookmarkIds.filter(id => !targetBookmarkIdSet.has(id))
BookmarksToLink(sourceBookmarkIds, targetBookmarkIds) ==
    sourceBookmarkIds \ targetBookmarkIds

\* (mutation: the count of the target's bookmarks after the merge)
AffectedBookmarks_Union(sourceLength, sourceBookmarkIds, targetBookmarkIds) ==
    Cardinality(sourceBookmarkIds \cup targetBookmarkIds)

\* affectedBookmarks: sourceBookmarkIds.length
AffectedBookmarks(sourceLength, sourceBookmarkIds, targetBookmarkIds) == sourceLength

\* mergeTagsForUser: the same-tag check and the lookup of the source tag.
\* loc.preSource and loc.preTarget record the bookmarks of the two tags as they
\* were when the call was made.
MergeTagsForUser(p, sourceTagId, targetTagId, ownerId) ==
    /\ pc[p] = "idle"
    /\ Budget
    /\ req' = [req EXCEPT ![p] = [op |-> "mergeTags", sourceTagId |-> sourceTagId,
                                  targetTagId |-> targetTagId, ownerId |-> ownerId]]
    /\ IF sourceTagId = targetTagId
       THEN Finish(p, [code |-> "TAG_MERGE_SAME_TAG"]) /\ loc' = loc
       ELSE IF FindTagByIdAndOwner(sourceTagId, ownerId) = {}
       THEN Finish(p, [code |-> "TAG_SOURCE_NOT_FOUND"]) /\ loc' = loc
       ELSE /\ Goto(p, "mt_tgt")
            /\ loc' = [loc EXCEPT ![p] =
                         [preSource |-> GetBookmarkIdsByTag(sourceTagId),
                          preTarget |-> GetBookmarkIdsByTag(targetTagId),
                          sourceFound |-> FALSE, sourceLength |-> 0,
                          sourceIds |-> {}, targetIds |-> {}, linked |-> {}]]
    /\ UNCHANGED <<dbVars, ensured>>

\* mergeTagsForUser: the lookup of the target tag.
MtTgt(p) ==
    /\ pc[p] = "mt_tgt"
    /\ calls' = calls
    /\ IF FindTagByIdAndOwner(req[p].targetTagId, req[p].ownerId) = {}
       THEN Finish(p, [code |-> "TAG_TARGET_NOT_FOUND"])
       ELSE Goto(p, "mt_src2")
    /\ UNCHANGED <<dbVars, req, loc, ensured>>

\* mergeTags (repository): the lookup of the source tag again ...
MtSrc2(p) ==
    /\ pc[p] = "mt_src2"
    /\ calls' = calls
    /\ loc' = [loc EXCEPT ![p].sourceFound =
                 FindTagByIdAndOwner(req[p].sourceTagId, req[p].ownerId) # {}]
    /\ Goto(p, "mt_tgt2")
    /\ UNCHANGED <<dbVars, req, ensured>>

\* ... and of the target tag; either missing makes the merge fail without a code.
MtTgt2(p) ==
    /\ pc[p] = "mt_tgt2"
    /\ calls' = calls
    /\ IF ~loc[p].sourceFound
          \/ FindTagByIdAndOwner(req[p].targetTagId, req[p].ownerId) = {}
       THEN Finish(p, [code |-> "MERGE_FAILED"])
       ELSE Goto(p, "mt_srcids")
    /\ UNCHANGED <<dbVars, req, loc, ensured>>

\* mergeTags: getBookmarkIdsByTag(sourceTagId)
MtSrcIds(p) ==
    /\ pc[p] = "mt_srcids"
    /\ calls' = calls
    /\ loc' = [loc EXCEPT ![p].sourceIds = GetBookmarkIdsByTag(req[p].sourceTagId),
                          ![p].sourceLength = CountRowsByTag(req[p].sourceTagId)]
    /\ Goto(p, "mt_tgtids")
    /\ UNCHANGED <<dbVars, req, ensured>>

\* mergeTags: getBookmarkIdsByTag(targetTagId); nothing to link skips the createMany.
MtTgtIds(p) ==
    /\ pc[p] = "mt_tgtids"
    /\ calls' = calls
    /\ loc' = [loc EXCEPT ![p].targetIds = GetBookmarkIdsByTag(req[p].targetTagId)]
    /\ Goto(p, IF BookmarksToLink(loc[p].sourceIds, GetBookmarkIdsByTag(req[p].targetTagId)) # {}
               THEN "mt_link" ELSE "mt_delete")
    /\ UNCHANGED <<dbVars, req, ensured>>

\* mergeTags: createMany of the new target associations.
MtLink(p) ==
    /\ pc[p] = "mt_link"
    /\ calls' = calls
    /\ LET rows == {<<b, req[p].targetTagId>> :
                       b \in BookmarksToLink(loc[p].sourceIds, loc[p].targetIds)}
       IN IF ~BookmarkTagFkOk(rows)
          THEN /\ Finish(p, [code |-> "THROWN"])
               /\ UNCHANGED <<bookmarkTags, loc>>
          ELSE /\ bookmarkTags' = CreateManySkipDuplicates(rows)
               /\ loc' = [loc EXCEPT ![p].linked = {r[1] : r \in rows}]
               /\ Goto(p, "mt_delete")
    /\ UNCHANGED <<authVars, permissions, collections, bookmarks, tags, nextCollId, nextBmId, nextTagId,
                   req, ensured>>

\* prisma.tag.delete({ where: { id } }); the schema cascades to the tag's
\* BookmarkTag rows.
DeleteTagCascade(tagId) ==
    [r \in {x \in BagToSet(bookmarkTags) : x[2] # tagId} |-> bookmarkTags[r]]

\* mergeTags: the delete of the source tag, and the value returned.
MtDelete(p) ==
    /\ pc[p] = "mt_delete"
    /\ calls' = calls
    /\ IF req[p].sourceTagId \notin DOMAIN tags
       THEN /\ Finish(p, [code |-> "THROWN"])
            /\ UNCHANGED <<tags, bookmarkTags>>
       ELSE /\ tags' = Remove(tags, req[p].sourceTagId)
            /\ bookmarkTags' = DeleteTagCascade(req[p].sourceTagId)
            /\ Finish(p, [code |-> "ok", affectedBookmarks |->
                   AffectedBookmarks(loc[p].sourceLength, loc[p].sourceIds, loc[p].targetIds)])
    /\ UNCHANGED <<authVars, permissions, collections, bookmarks, nextCollId, nextBmId, nextTagId,
                   req, loc, ensured>>

\* ------------------------------------------------------ bulk operations
\* (mutation: the findMany does not filter on the owner)
FindBookmarksByIds_AnyOwner(bookmarkIds, ownerId) ==
    {b \in DOMAIN bookmarks : b \in bookmarkIds}

\* prisma.bookmark.findMany({ where: { id: { in: bookmarkIds }, ownerId } }): the ids
FindBookmarksByIds(bookmarkIds, ownerId) ==
    {b \in DOMAIN bookmarks : b \in bookmarkIds /\ bookmarks[b].ownerId = ownerId}

\* executeBulkOperation: findBookmarksByIds, the empty check and the dispatch,
\* each branch up to its first database call.  A payload holds tags (names),
\* tagIds, collectionId (0 when omitted) and orders (<<bookmarkId, sortOrder>>
\* pairs).  loc.preBookmarks and loc.preTags record the two tables as they
\* were when the call was made.
ExecuteBulkOperation(p, ownerId, bookmarkIds, action, payload) ==
    /\ pc[p] = "idle"
    /\ Budget
    /\ req' = [req EXCEPT ![p] = [op |-> "bulk", ownerId |-> ownerId,
                 bookmarkIds |-> bookmarkIds, action |-> action,
                 tags |-> payload.tags, tagIds |-> payload.tagIds,
                 collectionId |-> payload.collectionId, orders |-> payload.orders]]
    /\ LET valid == FindBookmarksByIds(bookmarkIds, ownerId)
           fail(code) == Finish(p, [code |-> code, affectedCount |-> 0])
       IN /\ loc' = [loc EXCEPT ![p] =
                       [valid |-> valid, i |-> 1, resolved |-> {}, tx |-> <<>>,
                        updatedCount |-> 0, preBookmarks |-> bookmarks,
                        preTags |-> bookmarkTags]]
          /\ IF valid = {} THEN fail("BULK_NO_BOOKMARKS")
             ELSE IF action \in {"addTags", "removeTags"}
             THEN IF payload.tags # <<>> THEN Goto(p, "bt_find")
                  ELSE IF payload.tagIds # <<>> THEN Goto(p, "bt_idfind")
                  ELSE fail("BULK_TAGS_REQUIRED")
             ELSE IF action = "move"
             THEN IF payload.collectionId = 0 THEN fail("BULK_COLLECTION_NOT_FOUND")
                  ELSE Goto(p, "bm_coll")
             ELSE IF action = "delete" THEN Goto(p, "bd_delete")
             ELSE IF action \in {"favorite", "unfavorite"} THEN Goto(p, "bf_update")
             ELSE IF payload.orders = <<>> THEN fail("BULK_ORDERS_REQUIRED")
                  ELSE Goto(p, "bo_tx")
    /\ UNCHANGED <<dbVars, ensured>>

\* bulkAddTags / bulkRemoveTags: where a resolution loop over a list of
\* length n goes after one pass that resolved the tags in `found'.
BulkTagPass(p, found, n) ==
    LET resolved == loc[p].resolved \cup found
    IN /\ loc' = [loc EXCEPT ![p].resolved = resolved, ![p].i = @ + 1]
       /\ IF loc[p].i < n THEN Goto(p, pc[p])
          ELSE IF resolved = {}
          THEN Finish(p, [code |-> "BULK_TAGS_REQUIRED", affectedCount |-> 0])
          ELSE Goto(p, IF req[p].action = "addTags" THEN "ba_valid" ELSE "br_valid")

\* One pass of the loop over tag names: findTagByNormalizedName (inside
\* getOrCreateTag for addTags); an unknown name is created for addTags and
\* skipped for removeTags.
BtFind(p) ==
    /\ pc[p] = "bt_find"
    /\ calls' = calls
    /\ LET found == FindTagByNormalizedName(NormalizeTagName(req[p].tags[loc[p].i]),
                                            req[p].ownerId)
       IN IF found # {}
          THEN \E t \in found : BulkTagPass(p, {t}, Len(req[p].tags))
          ELSE IF req[p].action = "addTags"
          THEN Goto(p, "bt_create") /\ loc' = loc
          ELSE BulkTagPass(p, {}, Len(req[p].tags))
    /\ UNCHANGED <<dbVars, req, ensured>>

\* getOrCreateTag: createTag
BtCreate(p) ==
    /\ pc[p] = "bt_create"
    /\ calls' = calls
    /\ nextTagId <= MaxTag
    /\ LET name == req[p].tags[loc[p].i]
       IN IF ~TagUniqueOk(req[p].ownerId, NormalizeTagName(name))
          THEN /\ Finish(p, [code |-> "THROWN"])
               /\ UNCHANGED <<tags, nextTagId, loc>>
          ELSE /\ tags' = tags @@ (nextTagId :> NewTag(req[p].ownerId, name))
               /\ nextTagId' = nextTagId + 1
               /\ loc' = [loc EXCEPT ![p].resolved = @ \cup {nextTagId}, ![p].i = @ + 1]
               /\ Goto(p, IF loc[p].i < Len(req[p].tags) THEN "bt_find" ELSE "ba_valid")
    /\ UNCHANGED <<authVars, permissions, collections, bookmarks, bookmarkTags, nextCollId, nextBmId, req, ensured>>

\* One pass of the loop over tag ids: findTagByIdAndOwner, kept if found.
BtIdFind(p) ==
    /\ pc[p] = "bt_idfind"
    /\ calls' = calls
    /\ BulkTagPass(p, FindTagByIdAndOwner(req[p].tagIds[loc[p].i], req[p].ownerId),
                   Len(req[p].tagIds))
    /\ UNCHANGED <<dbVars, req, ensured>>

\* bulkAddTagsToBookmarks: the findMany of the caller's bookmarks; no row to
\* insert returns 0.
BaValid(p) ==
    /\ pc[p] = "ba_valid"
    /\ calls' = calls
    /\ LET validBookmarkIds == FindBookmarksByIds(loc[p].valid, req[p].ownerId)
       IN /\ loc' = [loc EXCEPT ![p].valid = validBookmarkIds]
          /\ IF validBookmarkIds \X loc[p].resolved = {}
             THEN Finish(p, [code |-> "ok", affectedCount |-> 0])
             ELSE Goto(p, "ba_create")
    /\ UNCHANGED <<dbVars, req, ensured>>

\* bulkAddTagsToBookmarks: createMany of every (bookmark, tag) pair.
BaCreate(p) ==
    /\ pc[p] = "ba_create"
    /\ calls' = calls
    /\ LET rows == loc[p].valid \X loc[p].resolved
       IN IF ~BookmarkTagFkOk(rows)
          THEN /\ Finish(p, [code |-> "THROWN"])
               /\ bookmarkTags' = bookmarkTags
          ELSE /\ bookmarkTags' = CreateManySkipDuplicates(rows)
               /\ Finish(p, [code |-> "ok", affectedCount |-> Cardinality(loc[p].valid)])
    /\ UNCHANGED <<authVars, permissions, collections, bookmarks, tags, nextCollId, nextBmId, nextTagId,
                   req, loc, ensured>>

\* bulkRemoveTagsFromBookmarks: the findMany of the caller's bookmarks.
BrValid(p) ==
    /\ pc[p] = "br_valid"
    /\ calls' = calls
    /\ LET validBookmarkIds == FindBookmarksByIds(loc[p].valid, req[p].ownerId)
       IN /\ loc' = [loc EXCEPT ![p].valid = validBookmarkIds]
          /\ IF validBookmarkIds = {}
             THEN Finish(p, [code |-> "ok", affectedCount |-> 0])
             ELSE Goto(p, "br_delete")
    /\ UNCHANGED <<dbVars, req, ensured>>

\* prisma.bookmarkTag.deleteMany({ where: { bookmarkId: { in }, tagId: { in } } })
DeleteManyBookmarkTags(bookmarkIds, tagIds) ==
    [r \in {x \in BagToSet(bookmarkTags) : ~(x[1] \in bookmarkIds /\ x[2] \in tagIds)}
        |-> bookmarkTags[r]]

\* bulkRemoveTagsFromBookmarks: the deleteMany.
BrDelete(p) ==
    /\ pc[p] = "br_delete"
    /\ calls' = calls
    /\ bookmarkTags' = DeleteManyBookmarkTags(loc[p].valid, loc[p].resolved)
    /\ Finish(p, [code |-> "ok", affectedCount |-> Cardinality(loc[p].valid)])
    /\ UNCHANGED <<authVars, permissions, collections, bookmarks, tags, nextCollId, nextBmId, nextTagId,
                   req, loc, ensured>>

\* bulkMove: findCollectionByIdAndOwner of the target.
BmColl(p) ==
    /\ pc[p] = "bm_coll"
    /\ calls' = calls
    /\ IF FindCollectionByIdAndOwner(req[p].collectionId, req[p].ownerId) = {}
       THEN Finish(p, [code |-> "BULK_COLLECTION_NOT_FOUND", affectedCount |-> 0])
       ELSE Goto(p, "bm_move")
    /\ UNCHANGED <<dbVars, req, loc, ensured>>

\* prisma.bookmark.updateMany({ where: { id: { in: bookmarkIds }, ownerId }, data }):
\* the rows matched, and the table after the update of `field'.
UpdateManyBookmarks(bookmarkIds, ownerId, field, value) ==
    [b \in DOMAIN bookmarks |->
        IF b \in FindBookmarksByIds(bookmarkIds, ownerId)
        THEN [bookmarks[b] EXCEPT ![field] = value]
        ELSE bookmarks[b]]

\* moveBookmarksToCollection (bulk): the updateMany of collectionId.
BmMove(p) ==
    /\ pc[p] = "bm_move"
    /\ calls' = calls
    /\ LET matched == FindBookmarksByIds(loc[p].valid, req[p].ownerId)
       IN IF matched # {} /\ ~CollectionFkOk(req[p].collectionId)
          THEN /\ Finish(p, [code |-> "THROWN"])
               /\ bookmarks' = bookmarks
          ELSE /\ bookmarks' = UpdateManyBookmarks(loc[p].valid, req[p].ownerId,
                                                   "collectionId", req[p].collectionId)
               /\ Finish(p, [code |-> "ok", affectedCount |-> Cardinality(matched)])
    /\ UNCHANGED <<authVars, permissions, collections, tags, bookmarkTags, nextCollId, nextBmId, nextTagId,
                   req, loc, ensured>>

\* deleteBookmarks: prisma.bookmark.deleteMany({ where: { id: { in }, ownerId } });
\* the schema cascades to the BookmarkTag rows of the deleted bookmarks.
BdDelete(p) ==
    /\ pc[p] = "bd_delete"
    /\ calls' = calls
    /\ LET matched == FindBookmarksByIds(loc[p].valid, req[p].ownerId)
       IN /\ bookmarks' = [b \in DOMAIN bookmarks \ matched |-> bookmarks[b]]
          /\ bookmarkTags' = [r \in {x \in BagToSet(bookmarkTags) : x[1] \notin matched}
                                 |-> bookmarkTags[r]]
          /\ Finish(p, [code |-> "ok", affectedCount |-> Cardinality(matched)])
    /\ UNCHANGED <<authVars, permissions, collections, tags, nextCollId, nextBmId, nextTagId, req, loc, ensured>>

\* bulkSetFavorite: the updateMany of isFavorite.
BfUpdate(p) ==
    /\ pc[p] = "bf_update"
    /\ calls' = calls
    /\ bookmarks' = UpdateManyBookmarks(loc[p].valid, req[p].ownerId,
                                        "isFavorite", req[p].action = "favorite")
    /\ Finish(p, [code |-> "ok", affectedCount |->
                     Cardinality(FindBookmarksByIds(loc[p].valid, req[p].ownerId))])
    /\ UNCHANGED <<authVars, permissions, collections, tags, bookmarkTags, nextCollId, nextBmId, nextTagId,
                   req, loc, ensured>>

\* (mutation: the update does not filter on the owner)
OrderMatches_AnyOwner(bookmarkId, ownerId) ==
    {b \in DOMAIN bookmarks : b = bookmarkId}

\* bulkUpdateSortOrder: the rows matched by where: { id: bookmarkId, ownerId }
OrderMatches(bookmarkId, ownerId) ==
    {b \in DOMAIN bookmarks : b = bookmarkId /\ bookmarks[b].ownerId = ownerId}

\* (mutation: the updates are issued outside a transaction)
TxUpdateSortOrder_Direct(pending, matched, sortOrder) ==
    [table |-> [b \in DOMAIN bookmarks |->
                   IF b \in matched THEN [bookmarks[b] EXCEPT !.sortOrder = sortOrder]
                   ELSE bookmarks[b]],
     pending |-> pending]

\* tx.bookmark.updateMany inside prisma.$transaction: the write is held by the
\* transaction (pending: bookmark id -> sortOrder) and the table others read
\* is as it was.
TxUpdateSortOrder(pending, matched, sortOrder) ==
    [table |-> bookmarks,
     pending |-> [b \in DOMAIN pending \cup matched |->
                     IF b \in matched THEN sortOrder ELSE pending[b]]]

\* bulkUpdateSortOrder: one pass of the loop inside the transaction.
\* bulkReorder hands it the payload's orders as they came.
BoTx(p) ==
    /\ pc[p] = "bo_tx"
    /\ calls' = calls
    /\ LET order == req[p].orders[loc[p].i]
           matched == OrderMatches(order[1], req[p].ownerId)
           w == TxUpdateSortOrder(loc[p].tx, matched, order[2])
       IN /\ bookmarks' = w.table
          /\ loc' = [loc EXCEPT ![p].tx = w.pending, ![p].i = @ + 1,
                                ![p].updatedCount = @ + Cardinality(matched)]
          /\ Goto(p, IF loc[p].i < Len(req[p].orders) THEN "bo_tx" ELSE "bo_commit")
    /\ UNCHANGED <<authVars, permissions, collections, tags, bookmarkTags, nextCollId, nextBmId, nextTagId,
                   req, ensured>>

\* The transaction commits: its writes reach the table together.
BoCommit(p) ==
    /\ pc[p] = "bo_commit"
    /\ calls' = calls
    /\ bookmarks' = [b \in DOMAIN bookmarks |->
                        IF b \in DOMAIN loc[p].tx
                        THEN [bookmarks[b] EXCEPT !.sortOrder = loc[p].tx[b]]
                        ELSE bookmarks[b]]
    /\ Finish(p, [code |-> "ok", affectedCount |-> loc[p].updatedCount])
    /\ UNCHANGED <<authVars, permissions, collections, tags, bookmarkTags, nextCollId, nextBmId, nextTagId,
                   req, loc, ensured>>

\* orders.filter(o => validBookmarkIds.has(o.bookmarkId))
ValidOrders(orders, ownerId) ==
    LET Owned(o) == FindBookmarksByIds({o[1]}, ownerId) # {}
    IN SelectSeq(orders, Owned)

\* reorderBookmarks (bookmark service): the empty check, the findMany of the
\* caller's bookmarks among those named, and the filter of the orders.
ReorderBookmarks(p, ownerId, orders) ==
    /\ pc[p] = "idle"
    /\ Budget
    /\ LET validOrders == ValidOrders(orders, ownerId)
       IN /\ req' = [req EXCEPT ![p] = [op |-> "reorder", ownerId |-> ownerId,
                                        orders |-> validOrders]]
          /\ loc' = [loc EXCEPT ![p] = [i |-> 1, tx |-> <<>>, updatedCount |-> 0]]
          /\ IF validOrders = <<>>
             THEN Finish(p, [code |-> "NO_VALID_BOOKMARKS", affectedCount |-> 0])
             ELSE Goto(p, "rb_tx")
    /\ UNCHANGED <<dbVars, ensured>>

\* reorderBookmarks: one pass of the loop inside the transaction,
\* tx.bookmark.update({ where: { id } }); a row that is gone makes the update
\* throw, which rolls the transaction back.
RbTx(p) ==
    /\ pc[p] = "rb_tx"
    /\ calls' = calls
    /\ LET order == req[p].orders[loc[p].i]
           w == TxUpdateSortOrder(loc[p].tx, {order[1]}, order[2])
       IN IF order[1] \notin DOMAIN bookmarks
          THEN /\ Finish(p, [code |-> "THROWN"])
               /\ UNCHANGED <<bookmarks, loc>>
          ELSE /\ bookmarks' = w.table
               /\ loc' = [loc EXCEPT ![p].tx = w.pending, ![p].i = @ + 1,
                                     ![p].updatedCount = @ + 1]
               /\ Goto(p, IF loc[p].i < Len(req[p].orders) THEN "rb_tx" ELSE "bo_commit")
    /\ UNCHANGED <<authVars, permissions, collections, tags, bookmarkTags, nextCollId, nextBmId, nextTagId,
                   req, ensured>>

\* The transaction fails (time-out, lost connection) before it commits:
\* prisma.$transaction rejects, its writes are rolled back, the call throws.
BoAbort(p) ==
    /\ pc[p] \in {"bo_tx", "rb_tx", "bo_commit"}
    /\ calls' = calls
    /\ DOMAIN loc[p].tx # {}
    /\ Finish(p, [code |-> "THROWN"])
    /\ UNCHANGED <<dbVars, req, loc, ensured>>

\* ------------------------------------------------------ permission engine
Roles == {"VIEWER", "EDITOR"}

\* prisma.collection.findUnique({ where: { id } })
FindCollectionById(id) == {c \in DOMAIN collections : c = id}

\* prisma.user.findUnique({ where: { id } }): the accounts are the fixed set Users
FindUserById(id) == {u \in Users : u = id}

\* prisma.collectionPermission.findUnique({ where: { collectionId_userId } })
FindPermissionByCollectionAndUser(collectionId, userId) ==
    {k \in DOMAIN permissions : k = <<collectionId, userId>>}

\* getUserRole: permission?.role ?? null (the set holding the role, empty for null)
GetUserRole(collectionId, userId) ==
    {permissions[k].role : k \in FindPermissionByCollectionAndUser(collectionId, userId)}

\* (mutation: every role may edit)
canEdit_Any(role) == TRUE

canEdit(role) == role = "EDITOR"

canView(role) == role = "VIEWER" \/ role = "EDITOR"

\* The revocations that have succeeded and whose answer is still standing:
\* <<request number, collectionId, userId>>.
Revoked ==
    {<<loc[q].seen.n, req[q].id, req[q].userId>> :
        q \in {r \in Procs : pc[r] = "done" /\ req[r].op = "revokeShare"
                                             /\ res[r].code = "ok"}}

\* What a request sees at its first await: its own number, the tables as they
\* are, and the revocations that had already succeeded.
Seen ==
    [n |-> calls + 1, collections |-> collections, permissions |-> permissions,
     revoked |-> Revoked]

\* The ownership preamble of shareCollection, revokeShare and listCollectionShares.
OwnerCheck(collectionId, ownerId) ==
    IF FindCollectionById(collectionId) = {} THEN "COLLECTION_NOT_FOUND"
    ELSE IF collections[collectionId].ownerId # ownerId THEN "NOT_OWNER"
    ELSE "ok"

\* (mutation: the self-share test is left out)
IsSelfShare_Never(userId, ownerId) == FALSE

\* data.userId === ownerId
IsSelfShare(userId, ownerId) == userId = ownerId

\* shareCollection up to its first await: findCollectionById, the owner test
\* and the self-share test.
ShareCollection(p, collectionId, ownerId, userId, role) ==
    /\ pc[p] = "idle"
    /\ Budget
    /\ req' = [req EXCEPT ![p] = [op |-> "shareCollection", id |-> collectionId,
                                  ownerId |-> ownerId, userId |-> userId, role |-> role]]
    /\ loc' = [loc EXCEPT ![p] = [seen |-> Seen, existing |-> {}]]
    /\ IF OwnerCheck(collectionId, ownerId) # "ok"
       THEN Finish(p, [code |-> OwnerCheck(collectionId, ownerId)])
       ELSE IF IsSelfShare(userId, ownerId)
       THEN Finish(p, [code |-> "CANNOT_SHARE_WITH_SELF"])
       ELSE Goto(p, "sc_user")
    /\ UNCHANGED <<dbVars, ensured>>

\* findUserById(data.userId)
ScUser(p) ==
    /\ pc[p] = "sc_user"
    /\ calls' = calls
    /\ IF FindUserById(req[p].userId) = {}
       THEN Finish(p, [code |-> "USER_NOT_FOUND"])
       ELSE Goto(p, "sc_find")
    /\ UNCHANGED <<dbVars, req, loc, ensured>>

\* findPermissionByCollectionAndUser and the branch on the stored role.
ScFind(p) ==
    /\ pc[p] = "sc_find"
    /\ calls' = calls
    /\ LET existing == FindPermissionByCollectionAndUser(req[p].id, req[p].userId) IN
       IF existing = {}
       THEN Goto(p, "sc_create") /\ loc' = loc
       ELSE IF permissions[<<req[p].id, req[p].userId>>].role # req[p].role
       THEN /\ Goto(p, "sc_update")
            /\ loc' = [loc EXCEPT ![p].existing = {permissions[k].id : k \in existing}]
       ELSE Finish(p, [code |-> "ALREADY_SHARED"]) /\ loc' = loc
    /\ UNCHANGED <<dbVars, req, ensured>>

\* updatePermissionRole(existingPermission.id, data.role): null when the row
\* with that id is gone, and shareCollection reports success either way.
ScUpdate(p) ==
    /\ pc[p] = "sc_update"
    /\ calls' = calls
    /\ permissions' =
         [k \in DOMAIN permissions |->
            IF permissions[k].id \in loc[p].existing
            THEN [permissions[k] EXCEPT !.role = req[p].role]
            ELSE permissions[k]]
    /\ Finish(p, [code |-> "ok"])
    /\ UNCHANGED <<authVars, collections, bookmarks, tags, bookmarkTags, nextCollId, nextBmId,
                   nextTagId, req, loc, ensured>>

\* createPermission: the (collectionId, userId) pair is unique, and the row
\* references its collection.  The new row's id is the request's own number.
ScCreate(p) ==
    /\ pc[p] = "sc_create"
    /\ calls' = calls
    /\ LET k == <<req[p].id, req[p].userId>> IN
       IF k \in DOMAIN permissions \/ req[p].id \notin DOMAIN collections
       THEN Finish(p, [code |-> "THROWN"]) /\ permissions' = permissions
       ELSE /\ permissions' = [x \in DOMAIN permissions \cup {k} |->
                                 IF x = k THEN [id |-> loc[p].seen.n, role |-> req[p].role]
                                 ELSE permissions[x]]
            /\ Finish(p, [code |-> "ok"])
    /\ UNCHANGED <<authVars, collections, bookmarks, tags, bookmarkTags, nextCollId, nextBmId,
                   nextTagId, req, loc, ensured>>

\* revokeShare up to its first await.
RevokeShare(p, collectionId, ownerId, targetUserId) ==
    /\ pc[p] = "idle"
    /\ Budget
    /\ req' = [req EXCEPT ![p] = [op |-> "revokeShare", id |-> collectionId,
                                  ownerId |-> ownerId, userId |-> targetUserId]]
    /\ loc' = [loc EXCEPT ![p] = [seen |-> Seen]]
    /\ IF OwnerCheck(collectionId, ownerId) # "ok"
       THEN Finish(p, [code |-> OwnerCheck(collectionId, ownerId)])
       ELSE Goto(p, "rs_delete")
    /\ UNCHANGED <<dbVars, ensured>>

\* (mutation: the row outlives its deletion)
DeletePermissionByCollectionAndUser_Keep(collectionId, userId) == permissions

\* prisma.collectionPermission.delete({ where: { collectionId_userId } })
DeletePermissionByCollectionAndUser(collectionId, userId) ==
    Remove(permissions, <<collectionId, userId>>)

\* deletePermissionByCollectionAndUser: false when there is no such row.
RsDelete(p) ==
    /\ pc[p] = "rs_delete"
    /\ calls' = calls
    /\ LET k == <<req[p].id, req[p].userId>> IN
       IF k \in DOMAIN permissions
       THEN /\ permissions' = DeletePermissionByCollectionAndUser(req[p].id, req[p].userId)
            /\ Finish(p, [code |-> "ok"])
       ELSE permissions' = permissions /\ Finish(p, [code |-> "PERMISSION_NOT_FOUND"])
    /\ UNCHANGED <<authVars, collections, bookmarks, tags, bookmarkTags, nextCollId, nextBmId,
                   nextTagId, req, loc, ensured>>

\* listCollectionShares up to its first await.
ListCollectionShares(p, collectionId, ownerId) ==
    /\ pc[p] = "idle"
    /\ Budget
    /\ req' = [req EXCEPT ![p] = [op |-> "listCollectionShares", id |-> collectionId,
                                  ownerId |-> ownerId]]
    /\ loc' = [loc EXCEPT ![p] = [seen |-> Seen]]
    /\ IF OwnerCheck(collectionId, ownerId) # "ok"
       THEN Finish(p, [code |-> OwnerCheck(collectionId, ownerId)])
       ELSE Goto(p, "ls_find")
    /\ UNCHANGED <<dbVars, ensured>>

\* findPermissionsWithUsers(collectionId)
LsFind(p) ==
    /\ pc[p] = "ls_find"
    /\ calls' = calls
    /\ Finish(p, [code |-> "ok",
                  permissions |-> {k \in DOMAIN permissions : k[1] = req[p].id}])
    /\ UNCHANGED <<dbVars, req, loc, ensured>>

Access(hasAccess, edit, view) ==
    [code |-> "access", hasAccess |-> hasAccess, canEdit |-> edit, canView |-> view]

\* checkCollectionAccess up to its first await: findCollectionById and the
\* owner test.
CheckCollectionAccess(p, collectionId, userId) ==
    /\ pc[p] = "idle"
    /\ Budget
    /\ req' = [req EXCEPT ![p] = [op |-> "checkCollectionAccess", id |-> collectionId,
                                  userId |-> userId]]
    /\ loc' = [loc EXCEPT ![p] = [seen |-> Seen]]
    /\ IF FindCollectionById(collectionId) = {}
       THEN Finish(p, Access(FALSE, FALSE, FALSE))
       ELSE IF collections[collectionId].ownerId = userId
       THEN Finish(p, Access(TRUE, TRUE, TRUE))
       ELSE Goto(p, "ca_role")
    /\ UNCHANGED <<dbVars, ensured>>

\* getUserRole and the derivation of the flags from the role.
CaRole(p) ==
    /\ pc[p] = "ca_role"
    /\ calls' = calls
    /\ LET role == GetUserRole(req[p].id, req[p].userId) IN
       IF role # {}
       THEN \E r \in role : Finish(p, Access(TRUE, canEdit(r), canView(r)))
       ELSE Finish(p, Access(FALSE, FALSE, FALSE))
    /\ UNCHANGED <<dbVars, req, loc, ensured>>

\* canViewCollection up to its first await; userId is None for an anonymous
\* caller (null).
CanViewCollection(p, collectionId, userId) ==
    /\ pc[p] = "idle"
    /\ Budget
    /\ req' = [req EXCEPT ![p] = [op |-> "canViewCollection", id |-> collectionId,
                                  userId |-> userId]]
    /\ loc' = [loc EXCEPT ![p] = [seen |-> Seen]]
    /\ IF FindCollectionById(collectionId) = {}
       THEN Finish(p, [code |-> "bool", value |-> FALSE])
       ELSE IF collections[collectionId].isPublic
       THEN Finish(p, [code |-> "bool", value |-> TRUE])
       ELSE IF userId = None
       THEN Finish(p, [code |-> "bool", value |-> FALSE])
       ELSE IF collections[collectionId].ownerId = userId
       THEN Finish(p, [code |-> "bool", value |-> TRUE])
       ELSE Goto(p, "cv_role")
    /\ UNCHANGED <<dbVars, ensured>>

\* role !== null
CvRole(p) ==
    /\ pc[p] = "cv_role"
    /\ calls' = calls
    /\ Finish(p, [code |-> "bool", value |-> GetUserRole(req[p].id, req[p].userId) # {}])
    /\ UNCHANGED <<dbVars, req, loc, ensured>>

\* canEditCollection up to its first await.
CanEditCollection(p, collectionId, userId) ==
    /\ pc[p] = "idle"
    /\ Budget
    /\ req' = [req EXCEPT ![p] = [op |-> "canEditCollection", id |-> collectionId,
                                  userId |-> userId]]
    /\ loc' = [loc EXCEPT ![p] = [seen |-> Seen]]
    /\ IF FindCollectionById(collectionId) = {}
       THEN Finish(p, [code |-> "bool", value |-> FALSE])
       ELSE IF collections[collectionId].ownerId = userId
       THEN Finish(p, [code |-> "bool", value |-> TRUE])
       ELSE Goto(p, "ce_role")
    /\ UNCHANGED <<dbVars, ensured>>

\* role === 'EDITOR'
CeRole(p) ==
    /\ pc[p] = "ce_role"
    /\ calls' = calls
    /\ Finish(p, [code |-> "bool", value |-> GetUserRole(req[p].id, req[p].userId) = {"EDITOR"}])
    /\ UNCHANGED <<dbVars, req, loc, ensured>>


\* --------------------------------------------------------- rate limiter
\* The clock moves in steps of half a lockout window.
TickSeconds == LOCKOUT_WINDOW_SECONDS \div 2

Identifiers == {"e1"}

\* getFailedAttemptsKey, getLockoutKey
FailedKey(identifier) == <<"auth:failed:", identifier>>
LockoutKey(identifier) == <<"auth:lockout:", identifier>>

RedisSet(key, row) ==
    [k \in DOMAIN redis \cup {key} |-> IF k = key THEN row ELSE redis[k]]

\* redis.ttl: seconds left, -1 for a key without expiry, -2 for no key
RedisTtl(key) ==
    IF key \notin DOMAIN redis THEN -2
    ELSE IF redis[key].expiresAt = 0 THEN -1
    ELSE redis[key].expiresAt - now

\* redis.get, parsed: the counter, 0 when there is none
RedisGet(key) == IF key \in DOMAIN redis THEN redis[key].value ELSE 0

\* redis.incr: a missing key starts at 1 without expiry, a present one keeps its expiry
RedisIncr(key) ==
    IF key \in DOMAIN redis
    THEN RedisSet(key, [redis[key] EXCEPT !.value = @ + 1])
    ELSE RedisSet(key, [value |-> 1, expiresAt |-> 0])

\* redis.expire: no effect on a missing key
RedisExpire(key, seconds) ==
    IF key \in DOMAIN redis
    THEN RedisSet(key, [redis[key] EXCEPT !.expiresAt = now + seconds])
    ELSE redis

\* redis.setex
RedisSetex(key, seconds, value) == RedisSet(key, [value |-> value, expiresAt |-> now + seconds])

\* redis.del
RedisDel(key) == Remove(redis, key)

\* Time passes; Redis drops the keys whose expiry has come.
Tick ==
    /\ now < MaxTicks * TickSeconds
    /\ now' = now + TickSeconds
    /\ redis' = [k \in {x \in DOMAIN redis :
                          redis[x].expiresAt = 0 \/ now + TickSeconds < redis[x].expiresAt}
                   |-> redis[k]]
    /\ UNCHANGED <<collections, bookmarks, tags, bookmarkTags, permissions,
                   nextCollId, nextBmId, nextTagId, pc, req, loc, res, calls, ensured,
                   oauthVars, failTimes>>

\* A login request is issued, while the budget of logins lasts.
LoginBudget == calls < MaxLogins /\ calls' = calls + 1

\* A login request: loginRateLimitPreHandler calls checkLoginAllowed, whose
\* first query is the ttl of the lockout key; a locked identifier gets 429.
LoginAttempt(p, identifier) ==
    /\ pc[p] = "idle"
    /\ LoginBudget
    /\ req' = [req EXCEPT ![p] = [op |-> "login", identifier |-> identifier]]
    /\ loc' = [loc EXCEPT ![p] = [newCount |-> 0, remainingAttempts |-> 0]]
    /\ IF RedisTtl(LockoutKey(identifier)) > 0
       THEN Finish(p, [code |-> "AUTH_003"])
       ELSE Goto(p, "cl_get")
    /\ UNCHANGED <<dbVars, ensured>>

\* checkLoginAllowed: the read of the failure counter; the attempt is allowed.
ClGet(p) ==
    /\ pc[p] = "cl_get"
    /\ calls' = calls
    /\ LET currentAttempts == RedisGet(FailedKey(req[p].identifier))
       IN loc' = [loc EXCEPT ![p].remainingAttempts =
                     IF MAX_FAILED_ATTEMPTS > currentAttempts
                     THEN MAX_FAILED_ATTEMPTS - currentAttempts ELSE 0]
    /\ Goto(p, "li_auth")
    /\ UNCHANGED <<dbVars, req, ensured>>

\* The credentials are verified: recordLoginFailure when authentication
\* fails, clearLoginFailures when it succeeds.
LiAuth(p) ==
    /\ pc[p] = "li_auth"
    /\ calls' = calls
    /\ \E valid \in BOOLEAN :
          IF valid
          THEN Goto(p, "cf_del") /\ failTimes' = failTimes
          ELSE Goto(p, "rf_incr") /\ failTimes' = Append(failTimes, now)
    /\ UNCHANGED <<collections, bookmarks, tags, bookmarkTags, permissions,
                   nextCollId, nextBmId, nextTagId, req, loc, ensured,
                   now, redis, oauthVars>>

\* (mutation: the account is locked one failure early)
ShouldLock_Early(newCount) == newCount + 1 >= MAX_FAILED_ATTEMPTS

\* newCount >= MAX_FAILED_ATTEMPTS
ShouldLock(newCount) == newCount >= MAX_FAILED_ATTEMPTS

\* recordFailedAttempt after the counter is known to carry its expiry: lock,
\* or answer with the attempts that remain.
RfDecide(p, newCount) ==
    IF ShouldLock(newCount)
    THEN Goto(p, "rf_setex")
    ELSE Finish(p, [code |-> "AUTH_FAILED", locked |-> FALSE,
                    remainingAttempts |-> MAX_FAILED_ATTEMPTS - newCount])

\* recordFailedAttempt: redis.incr(failedKey)
RfIncr(p) ==
    /\ pc[p] = "rf_incr"
    /\ calls' = calls
    /\ redis' = RedisIncr(FailedKey(req[p].identifier))
    /\ LET newCount == redis'[FailedKey(req[p].identifier)].value
       IN /\ loc' = [loc EXCEPT ![p].newCount = newCount]
          /\ IF newCount = 1 THEN Goto(p, "rf_expire") ELSE RfDecide(p, newCount)
    /\ UNCHANGED <<collections, bookmarks, tags, bookmarkTags, permissions,
                   nextCollId, nextBmId, nextTagId, req, ensured,
                   now, oauthVars, failTimes>>

\* recordFailedAttempt: redis.expire(failedKey, LOCKOUT_WINDOW_SECONDS)
RfExpire(p) ==
    /\ pc[p] = "rf_expire"
    /\ calls' = calls
    /\ redis' = RedisExpire(FailedKey(req[p].identifier), LOCKOUT_WINDOW_SECONDS)
    /\ RfDecide(p, loc[p].newCount)
    /\ UNCHANGED <<collections, bookmarks, tags, bookmarkTags, permissions,
                   nextCollId, nextBmId, nextTagId, req, loc, ensured,
                   now, oauthVars, failTimes>>

\* recordFailedAttempt: the awaited redis.expire rejects (the connection is
\* lost, or the process stops there), and the request ends with the error.
RfExpireFails(p) ==
    /\ pc[p] = "rf_expire"
    /\ calls' = calls
    /\ Finish(p, [code |-> "THROWN"])
    /\ UNCHANGED <<dbVars, req, loc, ensured>>

\* recordFailedAttempt: redis.setex(lockoutKey, LOCKOUT_DURATION_SECONDS, '1')
RfSetex(p) ==
    /\ pc[p] = "rf_setex"
    /\ calls' = calls
    /\ redis' = RedisSetex(LockoutKey(req[p].identifier), LOCKOUT_DURATION_SECONDS, 1)
    /\ Goto(p, "rf_del")
    /\ UNCHANGED <<collections, bookmarks, tags, bookmarkTags, permissions,
                   nextCollId, nextBmId, nextTagId, req, loc, ensured,
                   now, oauthVars, failTimes>>

\* recordFailedAttempt: redis.del(failedKey), and the locked answer
RfDel(p) ==
    /\ pc[p] = "rf_del"
    /\ calls' = calls
    /\ redis' = RedisDel(FailedKey(req[p].identifier))
    /\ Finish(p, [code |-> "AUTH_FAILED", locked |-> TRUE, remainingAttempts |-> 0])
    /\ UNCHANGED <<collections, bookmarks, tags, bookmarkTags, permissions,
                   nextCollId, nextBmId, nextTagId, req, loc, ensured,
                   now, oauthVars, failTimes>>

\* clearFailedAttempts: redis.del(failedKey) after a successful login
CfDel(p) ==
    /\ pc[p] = "cf_del"
    /\ calls' = calls
    /\ redis' = RedisDel(FailedKey(req[p].identifier))
    /\ failTimes' = <<>>
    /\ Finish(p, [code |-> "ok"])
    /\ UNCHANGED <<collections, bookmarks, tags, bookmarkTags, permissions,
                   nextCollId, nextBmId, nextTagId, req, loc, ensured,
                   now, oauthVars>>

\* unlockAccount: redis.del(lockoutKey)
UnlockAccount(p, identifier) ==
    /\ pc[p] = "idle"
    /\ LoginBudget
    /\ req' = [req EXCEPT ![p] = [op |-> "unlockAccount", identifier |-> identifier]]
    /\ redis' = RedisDel(LockoutKey(identifier))
    /\ Goto(p, "ua_del")
    /\ UNCHANGED <<collections, bookmarks, tags, bookmarkTags, permissions,
                   nextCollId, nextBmId, nextTagId, loc, ensured,
                   now, oauthVars, failTimes>>

\* unlockAccount: redis.del(failedKey)
UaDel(p) ==
    /\ pc[p] = "ua_del"
    /\ calls' = calls
    /\ redis' = RedisDel(FailedKey(req[p].identifier))
    /\ failTimes' = <<>>
    /\ Finish(p, [code |-> "ok"])
    /\ UNCHANGED <<collections, bookmarks, tags, bookmarkTags, permissions,
                   nextCollId, nextBmId, nextTagId, req, loc, ensured,
                   now, oauthVars>>


\* ------------------------------------------------------------------ jwt
\* parseDuration: '15m', '7d' to seconds
ParseDuration(duration) ==
    duration.value * (IF duration.unit = "s" THEN 1
                      ELSE IF duration.unit = "m" THEN 60
                      ELSE IF duration.unit = "h" THEN 60 * 60
                      ELSE 60 * 60 * 24)

\* jwt.sign(payload, env.JWT_SECRET, { expiresIn }): the claims, under the
\* server's signature
Sign(userId, type, expiresIn) ==
    [userId |-> userId, type |-> type, iat |-> now, exp |-> now + expiresIn,
     signature |-> "JWT_SECRET"]

\* generateTokenPair
GenerateTokenPair(userId) ==
    [accessToken |-> Sign(userId, "access", ParseDuration(JWT_EXPIRES_IN)),
     refreshToken |-> Sign(userId, "refresh", ParseDuration(JWT_REFRESH_EXPIRES_IN))]

\* verifyToken: jwt.verify accepts the server's signature on a token that has
\* not expired (the set holding the decoded token, or empty for null)
VerifyToken(token) ==
    IF token.signature = "JWT_SECRET" /\ now < token.exp THEN {token} ELSE {}

\* verifyRefreshToken
VerifyRefreshToken(token) == {d \in VerifyToken(token) : d.type = "refresh"}

\* refreshTokens (synchronous): null for a token that does not verify as a
\* refresh token, a new pair for the token's user otherwise. The token
\* presented is one that exists: its time of issue is not in the future.
RefreshTokens(p, refreshToken) ==
    /\ pc[p] = "idle"
    /\ refreshToken.iat <= now
    /\ Budget
    /\ req' = [req EXCEPT ![p] = [op |-> "refreshTokens", refreshToken |-> refreshToken]]
    /\ LET decoded == VerifyRefreshToken(refreshToken)
       IN IF decoded = {}
          THEN Finish(p, [code |-> "null"])
          ELSE \E d \in decoded :
                  Finish(p, [code |-> "ok", tokens |-> GenerateTokenPair(d.userId)])
    /\ UNCHANGED <<dbVars, loc, ensured>>

\* ---------------------------------------------------------------- oauth
\* crypto.createHash('sha256').update(verifier).digest(), base64url-encoded:
\* 43 characters of the base64url alphabet; distinct verifiers have
\* distinct digests.
GenerateCodeChallenge(verifier) ==
    [digest |-> <<"sha256", verifier.text>>, length |-> 43, charsOk |-> TRUE]

\* (mutation: any verifier is accepted)
VerifyCodeChallenge_Always(verifier, challenge) == TRUE

\* verifyCodeChallenge
VerifyCodeChallenge(verifier, challenge) == GenerateCodeChallenge(verifier) = challenge

\* isValidCodeVerifier: 43 to 128 unreserved characters
IsValidCodeVerifier(verifier) ==
    verifier.length >= 43 /\ verifier.length <= 128 /\ verifier.charsOk

\* isValidCodeChallenge: 43 base64url characters
IsValidCodeChallenge(challenge) == challenge.length = 43 /\ challenge.charsOk

\* cleanupExpiredCodes, on a table of codes
CleanupExpiredCodes(codes) ==
    [c \in {x \in DOMAIN codes : ~(now * 1000 > codes[x].expiresAt)} |-> codes[c]]

\* createAuthorizationCode (synchronous): the code is a fresh random string,
\* here the number of the request.
CreateAuthorizationCode(p, userId, codeChallenge) ==
    /\ pc[p] = "idle"
    /\ Budget
    /\ req' = [req EXCEPT ![p] = [op |-> "createAuthorizationCode", userId |-> userId,
                                  codeChallenge |-> codeChallenge]]
    /\ IF ~IsValidCodeChallenge(codeChallenge)
       THEN /\ Finish(p, [code |-> "OAUTH_INVALID_CODE_CHALLENGE"])
            /\ UNCHANGED <<authorizationCodes, bound>>
       ELSE LET authorizationCode == calls + 1
                data == [userId |-> userId, codeChallenge |-> codeChallenge,
                         expiresAt |-> now * 1000 + AUTH_CODE_EXPIRY_MS]
                stored == [c \in DOMAIN authorizationCodes \cup {authorizationCode} |->
                              IF c = authorizationCode THEN data ELSE authorizationCodes[c]]
            IN /\ authorizationCodes' = CleanupExpiredCodes(stored)
               /\ bound' = [c \in DOMAIN bound \cup {authorizationCode} |->
                               IF c = authorizationCode THEN codeChallenge ELSE bound[c]]
               /\ Finish(p, [code |-> "ok", authorizationCode |-> authorizationCode])
    /\ UNCHANGED <<collections, bookmarks, tags, bookmarkTags, permissions,
                   nextCollId, nextBmId, nextTagId, loc, ensured,
                   now, redis, granted, failTimes>>

\* (mutation: the code is left in the map after a successful verification)
ConsumeCode_Keep(authorizationCode) == authorizationCodes

\* authorizationCodes.delete(authorizationCode)
ConsumeCode(authorizationCode) == Remove(authorizationCodes, authorizationCode)

\* exchangeCodeForTokens up to its await: the format test, the lookup, the
\* expiry test, the PKCE verification and the deletion of the code.
ExchangeCodeForTokens(p, authorizationCode, codeVerifier) ==
    /\ pc[p] = "idle"
    /\ Budget
    /\ req' = [req EXCEPT ![p] = [op |-> "exchangeCodeForTokens",
                                  authorizationCode |-> authorizationCode,
                                  codeVerifier |-> codeVerifier]]
    /\ IF ~IsValidCodeVerifier(codeVerifier)
       THEN /\ Finish(p, [code |-> "OAUTH_INVALID_CODE_VERIFIER"])
            /\ UNCHANGED <<authorizationCodes, loc>>
       ELSE IF authorizationCode \notin DOMAIN authorizationCodes
       THEN /\ Finish(p, [code |-> "OAUTH_INVALID_AUTH_CODE"])
            /\ UNCHANGED <<authorizationCodes, loc>>
       ELSE LET codeData == authorizationCodes[authorizationCode] IN
            IF now * 1000 > codeData.expiresAt
            THEN /\ authorizationCodes' = Remove(authorizationCodes, authorizationCode)
                 /\ Finish(p, [code |-> "OAUTH_AUTH_CODE_EXPIRED"])
                 /\ loc' = loc
            ELSE IF ~VerifyCodeChallenge(codeVerifier, codeData.codeChallenge)
            THEN /\ Finish(p, [code |-> "OAUTH_PKCE_VERIFICATION_FAILED"])
                 /\ UNCHANGED <<authorizationCodes, loc>>
            ELSE /\ authorizationCodes' = ConsumeCode(authorizationCode)
                 /\ loc' = [loc EXCEPT ![p] = [codeData |-> codeData]]
                 /\ Goto(p, "ex_user")
    /\ UNCHANGED <<collections, bookmarks, tags, bookmarkTags, permissions,
                   nextCollId, nextBmId, nextTagId, ensured,
                   now, redis, bound, granted, failTimes>>

\* exchangeCodeForTokens: prisma.user.findUnique and the token pair.
ExUser(p) ==
    /\ pc[p] = "ex_user"
    /\ calls' = calls
    /\ IF FindUserById(loc[p].codeData.userId) = {}
       THEN /\ Finish(p, [code |-> "OAUTH_USER_NOT_FOUND"])
            /\ granted' = granted
       ELSE /\ Finish(p, [code |-> "ok", tokens |-> GenerateTokenPair(loc[p].codeData.userId)])
            /\ granted' = Append(granted, req[p].authorizationCode)
    /\ UNCHANGED <<collections, bookmarks, tags, bookmarkTags, permissions,
                   nextCollId, nextBmId, nextTagId, req, loc, ensured,
                   now, redis, authorizationCodes, bound, failTimes>>

\* ---------------------------------------------------------------- specs
CollIds == 1..MaxColl
BmIds == 1..MaxBm

\* The titles and flags an update may carry.
UpdateData == [title : Titles]

\* The one caller of the requests that race, or that are tried in bulk.
Racers == {"u1"}

\* The URL saved where the URL does not matter: https://example.com/page
PageUrl ==
    [protocol |-> "https:", hostname |-> "example.com", port |-> "",
     pathname |-> <<"page">>, search |-> <<>>, hash |-> ""]

\* Collection lifecycle: the steps of the collection and bookmark handlers.
Running(p) ==
    \/ Return(p)
    \/ GocFind(p) \/ GocCreate(p)
    \/ UcUpdate(p)
    \/ DcMove(p) \/ DcFind2(p) \/ DcDelete(p)
    \/ CbColl(p) \/ CbdCreate(p) \/ CbCreate(p)
    \/ UbFind(p) \/ UbUpdate(p)

Call(p) ==
    \/ \E u \in Users, t \in Titles : CreateCollectionForUser(p, u, t, FALSE)
    \/ \E u \in Users : EnsureDefaultCollection(p, u)
    \/ \E u \in Users, id \in CollIds, d \in UpdateData : UpdateCollectionForUser(p, id, u, d)
    \/ \E u \in Users, id \in CollIds : DeleteCollectionForUser(p, id, u)
    \/ \E u \in Users, id \in CollIds \cup {0} : CreateBookmarkForUser(p, u, PageUrl, id, <<>>)
    \/ \E u \in Users, b \in BmIds, id \in CollIds : UpdateBookmarkForUser(p, b, u, id)

Next == \E p \in {1} : Call(p) \/ Running(p)

Spec == Init /\ [][Next]_vars

\* Sharing: two requests interleaving at their awaits.
ShareRunning(p) ==
    \/ Return(p)
    \/ UcUpdate(p)
    \/ MpGen(p) \/ MpFind2(p) \/ MpUpdate(p)
    \/ MvFind2(p) \/ MvUpdate(p)

ShareCall(p) ==
    \/ \E u \in Racers, pub \in BOOLEAN : CreateCollectionForUser(p, u, "A", pub)
    \/ \E u \in Racers, id \in CollIds, d \in [isPublic : BOOLEAN] :
          UpdateCollectionForUser(p, id, u, d)
    \/ \E u \in Racers, id \in CollIds : MakeCollectionPublic(p, id, u)
    \/ \E u \in Racers, id \in CollIds : MakeCollectionPrivate(p, id, u)

ShareNext == \E p \in Procs : ShareCall(p) \/ ShareRunning(p)

SpecShare == Init /\ [][ShareNext]_vars

\* Deletion against concurrent bookmark writes: two requests interleaving.
DeleteCall(p) ==
    \/ \E u \in Racers, t \in Titles : CreateCollectionForUser(p, u, t, FALSE)
    \/ \E u \in Racers, id \in CollIds : DeleteCollectionForUser(p, id, u)
    \/ \E u \in Racers, id \in CollIds \cup {0} : CreateBookmarkForUser(p, u, PageUrl, id, <<>>)
    \/ \E u \in Racers, b \in BmIds, id \in CollIds : UpdateBookmarkForUser(p, b, u, id)

DeleteRunning(p) ==
    \/ Return(p)
    \/ GocFind(p) \/ GocCreate(p)
    \/ DcMove(p) \/ DcFind2(p) \/ DcDelete(p)
    \/ CbColl(p) \/ CbdCreate(p) \/ CbCreate(p)
    \/ UbFind(p) \/ UbUpdate(p)

DeleteNext == \E p \in Procs : DeleteCall(p) \/ DeleteRunning(p)

SpecDelete == Init /\ [][DeleteNext]_vars

\* Tagging: bookmarks saved with tags, tags created and merged.
TagIds == 1..MaxTag
TagLists == {<<n>> : n \in TagNames} \cup
            {<<n, m>> : <<n, m>> \in {x \in TagNames \X TagNames : x[1] # x[2]}}

TagRunning(p) ==
    \/ Return(p)
    \/ CbColl(p) \/ CbdCreate(p) \/ CbCreate(p)
    \/ CbTagFind(p) \/ CbTagCreate(p) \/ CbAddTags(p)
    \/ CtCreate(p)
    \/ MtTgt(p) \/ MtSrc2(p) \/ MtTgt2(p) \/ MtSrcIds(p) \/ MtTgtIds(p)
    \/ MtLink(p) \/ MtDelete(p)

TagCall(p, callers) ==
    \/ \E u \in callers, l \in TagLists : CreateBookmarkForUser(p, u, PageUrl, 0, l)
    \/ \E u \in callers, n \in TagNames : CreateTagForUser(p, u, n)
    \/ \E u \in callers, s \in TagIds, t \in TagIds : MergeTagsForUser(p, s, t, u)

TagNext == \E p \in {1} : TagCall(p, Users) \/ TagRunning(p)

SpecTag == Init /\ [][TagNext]_vars

\* createBookmarkForUser: a query inside the try block rejects because the
\* storage is unreachable; the catch block answers INVALID_URL when the
\* error's message includes 'URL' and throws the error on otherwise.
CbStorageFails(p) ==
    /\ pc[p] \in {"cb_coll", "cbd_create", "cb_create"}
    /\ calls' = calls
    /\ \E messageIncludesUrl \in BOOLEAN :
          Finish(p, [code |-> IF messageIncludesUrl THEN "INVALID_URL" ELSE "THROWN"])
    /\ loc' = [loc EXCEPT ![p] = StorageFailed]
    /\ UNCHANGED <<dbVars, req, ensured>>

\* An unreliable storage: requests one after another that create collections,
\* publish them and save bookmarks, any query of which may be rejected.
StorageRunning(p) ==
    \/ Return(p)
    \/ MpGen(p) \/ MpFind2(p) \/ MpUpdate(p) \/ MpStorageFails(p)
    \/ CbColl(p) \/ CbdCreate(p) \/ CbCreate(p) \/ CbStorageFails(p)

StorageCall(p) ==
    \/ \E u \in Users : CreateCollectionForUser(p, u, "A", FALSE)
    \/ \E u \in Users, id \in CollIds : MakeCollectionPublic(p, id, u)
    \/ \E u \in Users, id \in CollIds \cup {0} : CreateBookmarkForUser(p, u, PageUrl, id, <<>>)

StorageNext == \E p \in {1} : StorageCall(p) \/ StorageRunning(p)

SpecStorage == Init /\ [][StorageNext]_vars

\* Saving into a named collection: requests one after another, either user
\* creating collections and saving bookmarks, tagged or not, into a collection
\* named by id or into the default one.
CreateRunning(p) ==
    \/ Return(p)
    \/ CbColl(p) \/ CbdCreate(p) \/ CbCreate(p)
    \/ CbTagFind(p) \/ CbTagCreate(p) \/ CbAddTags(p)

CreateCall(p) ==
    \/ \E u \in Users : CreateCollectionForUser(p, u, "A", FALSE)
    \/ \E u \in Users, id \in CollIds \cup {0}, l \in {<<>>, << <<"a">> >>} :
          CreateBookmarkForUser(p, u, PageUrl, id, l)

CreateNext == \E p \in {1} : CreateCall(p) \/ CreateRunning(p)

SpecCreate == Init /\ [][CreateNext]_vars

\* Two requests of one user in flight at a time: bookmarks saved with one tag,
\* and merges.
TagRaceRunning(p) ==
    \/ Return(p)
    \/ CbColl(p) \/ CbdCreate(p) \/ CbCreate(p)
    \/ CbTagFind(p) \/ CbTagCreate(p) \/ CbAddTags(p)
    \/ MtTgt(p) \/ MtSrc2(p) \/ MtTgt2(p) \/ MtSrcIds(p) \/ MtTgtIds(p)
    \/ MtLink(p) \/ MtDelete(p)

TagRaceCall(p) ==
    \/ \E u \in Racers, l \in {<<n>> : n \in {<<"a">>, <<"b">>}} :
          CreateBookmarkForUser(p, u, PageUrl, 0, l)
    \/ \E u \in Racers, s \in TagIds, t \in TagIds : MergeTagsForUser(p, s, t, u)

TagRaceNext == \E p \in Procs : TagRaceCall(p) \/ TagRaceRunning(p)

SpecTagRace == Init /\ [][TagRaceNext]_vars

\* Tag names of one user created, resolved and renamed by two requests in
\* flight: every path that writes a normalizedName.
TagUniqueRunning(p) ==
    \/ Return(p)
    \/ CbColl(p) \/ CbdCreate(p) \/ CbCreate(p)
    \/ CbTagFind(p) \/ CbTagCreate(p) \/ CbAddTags(p)
    \/ CtCreate(p)
    \/ UtFind(p) \/ UtUpdate(p)
    \/ BtFind(p) \/ BtCreate(p) \/ BaValid(p) \/ BaCreate(p)

TagUniqueCall(p) ==
    \/ \E u \in Racers, n \in {<<"a">>, <<"A", " ">>} : CreateTagForUser(p, u, n)
    \/ \E u \in Racers : CreateBookmarkForUser(p, u, PageUrl, 0, << <<"a">> >>)
    \/ \E u \in Racers, id \in TagIds, n \in {<<"a">>, <<"b">>} :
          UpdateTagForUser(p, id, u, n)
    \/ \E u \in Racers :
          ExecuteBulkOperation(p, u, {1}, "addTags",
                               [tags |-> << <<"A", " ">> >>, tagIds |-> <<>>,
                                collectionId |-> 0, orders |-> <<>>])

TagUniqueNext == \E p \in Procs : TagUniqueCall(p) \/ TagUniqueRunning(p)

SpecTagUnique == Init /\ [][TagUniqueNext]_vars

\* Bulk operations of one user, one request at a time, over bookmarks of two users.
NoPayload == [tags |-> <<>>, tagIds |-> <<>>, collectionId |-> 0, orders |-> <<>>]
BulkTagPayloads ==
    {[NoPayload EXCEPT !.tags = l] :
        l \in {<< <<"a">> >>, << <<"A", " ">> >>, << <<"a">>, <<"b">> >>}}
    \cup {[NoPayload EXCEPT !.tagIds = l] : l \in {<<>>, <<1>>, <<1, 2>>}}
BulkMovePayloads == {[NoPayload EXCEPT !.collectionId = c] : c \in CollIds \cup {0}}
\* Orders that give each listed bookmark its position in the list.
OrderLists ==
    {<<>>} \cup {<< <<b, 1>> >> : b \in BmIds}
           \cup {<< <<b[1], 1>>, <<b[2], 2>> >> : b \in BmIds \X BmIds}
BulkOrderPayloads == {[NoPayload EXCEPT !.orders = l] : l \in OrderLists}
\* Selections of one or two bookmark ids.
BulkSelections == {ids \in SUBSET BmIds : Cardinality(ids) \in 1..2}
BulkInputs ==
    ({"addTags", "removeTags"} \X BulkTagPayloads)
    \cup ({"move"} \X BulkMovePayloads)
    \cup ({"delete", "favorite", "unfavorite"} \X {NoPayload})
    \cup ({"reorder"} \X BulkOrderPayloads)

BulkRunning(p) ==
    \/ Return(p)
    \/ CbColl(p) \/ CbdCreate(p) \/ CbCreate(p)
    \/ CbTagFind(p) \/ CbTagCreate(p) \/ CbAddTags(p)
    \/ BtFind(p) \/ BtCreate(p) \/ BtIdFind(p)
    \/ BaValid(p) \/ BaCreate(p) \/ BrValid(p) \/ BrDelete(p)
    \/ BmColl(p) \/ BmMove(p) \/ BdDelete(p) \/ BfUpdate(p)
    \/ BoTx(p) \/ BoCommit(p) \/ BoAbort(p)

BulkCall(p) ==
    \/ \E u \in Racers : CreateBookmarkForUser(p, u, PageUrl, 0, <<>>)
    \/ \E u \in Users \ Racers : CreateBookmarkForUser(p, u, PageUrl, 0, << <<"a">> >>)
    \/ \E u \in Racers : CreateCollectionForUser(p, u, "A", FALSE)
    \/ \E u \in Racers, ids \in BulkSelections, in \in BulkInputs :
          ExecuteBulkOperation(p, u, ids, in[1], in[2])

BulkNext == \E p \in {1} : BulkCall(p) \/ BulkRunning(p)

SpecBulk == Init /\ [][BulkNext]_vars

\* Reordering: two requests of one user in flight, each a reorder (through the
\* bulk executor or the bookmark service) or a save.
ReorderRunning(p) ==
    \/ Return(p)
    \/ CbColl(p) \/ CbdCreate(p) \/ CbCreate(p)
    \/ BoTx(p) \/ RbTx(p) \/ BoCommit(p) \/ BoAbort(p)

\* The two orders of bookmarks 1 and 2.
RaceOrders == {<< <<1, 1>>, <<2, 2>> >>, << <<2, 1>>, <<1, 2>> >>}

ReorderCall(p) ==
    \/ \E u \in Racers : CreateBookmarkForUser(p, u, PageUrl, 0, <<>>)
    \/ \E u \in Racers, l \in RaceOrders :
          ExecuteBulkOperation(p, u, {1}, "reorder", [NoPayload EXCEPT !.orders = l])
    \/ \E u \in Racers, l \in RaceOrders : ReorderBookmarks(p, u, l)

ReorderNext == \E p \in Procs : ReorderCall(p) \/ ReorderRunning(p)

SpecReorder == Init /\ [][ReorderNext]_vars

\* Sharing with users: one request stream of grants and revocations, and one
\* of access checks, interleaving at their awaits.
Principals == {"u2", "u0"}

PermRunning(p) ==
    \/ Return(p)
    \/ ScUser(p) \/ ScFind(p) \/ ScUpdate(p) \/ ScCreate(p)
    \/ RsDelete(p)
    \/ LsFind(p)
    \/ CaRole(p) \/ CvRole(p) \/ CeRole(p)

GrantCall(p) ==
    \/ \E u \in Racers, pub \in BOOLEAN : CreateCollectionForUser(p, u, "A", pub)
    \/ \E u \in Users, id \in CollIds, t \in Principals, r \in Roles :
          ShareCollection(p, id, u, t, r)
    \/ \E u \in Users, id \in CollIds, t \in Principals : RevokeShare(p, id, u, t)
    \/ \E u \in Users, id \in CollIds : ListCollectionShares(p, id, u)

CheckCall(p) ==
    \/ \E u \in Users, id \in CollIds : CheckCollectionAccess(p, id, u)
    \/ \E u \in Users \cup {None}, id \in CollIds : CanViewCollection(p, id, u)
    \/ \E u \in Users, id \in CollIds : CanEditCollection(p, id, u)

PermNext ==
    \/ GrantCall(1)
    \/ CheckCall(2)
    \/ \E p \in Procs : PermRunning(p)

SpecPerm == Init /\ [][PermNext]_vars

\* Sharing among the owners themselves: a stream of collection creations and
\* revocations and a stream of shares, by either user with either user,
\* interleaving at their awaits.
OwnerShareRunning(p) ==
    \/ Return(p)
    \/ ScUser(p) \/ ScFind(p) \/ ScUpdate(p) \/ ScCreate(p)
    \/ RsDelete(p)

OwnerShareCall(p) ==
    \/ \E u \in Users, id \in CollIds, t \in Users, r \in Roles :
          ShareCollection(p, id, u, t, r)

OwnerSetupCall(p) ==
    \/ \E u \in Users : CreateCollectionForUser(p, u, "A", FALSE)
    \/ \E u \in Users, id \in CollIds, t \in Users : RevokeShare(p, id, u, t)

OwnerShareNext ==
    \/ OwnerSetupCall(1)
    \/ OwnerShareCall(2)
    \/ \E p \in Procs : OwnerShareRunning(p)

SpecOwnerShare == Init /\ [][OwnerShareNext]_vars

\* The URL normalizer alone, on every URL over a few hosts, ports, paths and
\* queries of up to MaxParams parameters.
ParamKeys == {"a", "b", "utm_source", "UTM_Source"}
ParamValues == {"1", "2"}
RECURSIVE Queries(_)
Queries(n) ==
    IF n = 0 THEN {<<>>}
    ELSE Queries(n - 1) \cup
         {Append(q, kv) : q \in {x \in Queries(n - 1) : Len(x) = n - 1},
                          kv \in ParamKeys \X ParamValues}

UrlInputs ==
    [protocol : {"https:", "http:", "ftp:"},
     hostname : {"example.com", "EXAMPLE.com"},
     port : {"", "443", "8080"},
     pathname : {<<"">>, <<"page">>, <<"page", "">>, <<"p%61ge", "", "">>, <<"a%2F">>},
     search : Queries(MaxParams),
     hash : {"", "#top"}]

InitUrl ==
    /\ collections = <<>>
    /\ bookmarks = <<>>
    /\ tags = <<>>
    /\ bookmarkTags = EmptyBag
    /\ permissions = <<>>
    /\ nextCollId = 1
    /\ nextBmId = 1
    /\ nextTagId = 1
    /\ pc = [p \in Procs |-> "idle"]
    /\ \E url \in UrlInputs :
          req = [p \in Procs |-> IF p = 1 THEN [op |-> "normalizeURL", url |-> url] ELSE NoReq]
    /\ loc = [p \in Procs |-> NoLoc]
    /\ res = [p \in Procs |-> NoRes]
    /\ calls = 0
    /\ ensured = {}
    /\ now = 0
    /\ redis = <<>>
    /\ authorizationCodes = <<>>
    /\ bound = <<>>
    /\ granted = <<>>
    /\ failTimes = <<>>

UrlNext == \E p \in {1} : NormalizeUrl(p) \/ NormalizeAgain(p)

SpecUrl == InitUrl /\ [][UrlNext]_vars

\* Saving: bookmarks saved under URLs of which some normalize alike.
\* https://EXAMPLE.com:443/page/?utm_source=x
TrackedUrl ==
    [protocol |-> "https:", hostname |-> "EXAMPLE.com", port |-> "443",
     pathname |-> <<"page", "">>, search |-> << <<"utm_source", "x">> >>, hash |-> ""]

\* https://example.com/other
OtherUrl == [PageUrl EXCEPT !.pathname = <<"other">>]

\* ftp://example.com/page
FtpUrl == [PageUrl EXCEPT !.protocol = "ftp:"]

SaveUrls == {PageUrl, TrackedUrl, OtherUrl, FtpUrl}

SaveRunning(p) ==
    \/ Return(p)
    \/ CbColl(p) \/ CbdCreate(p) \/ CbCreate(p)

SaveCall(p, callers) ==
    \E u \in callers, url \in SaveUrls : CreateBookmarkForUser(p, u, url, 0, <<>>)

SaveNext == \E p \in {1} : SaveCall(p, Users) \/ SaveRunning(p)

SpecSave == Init /\ [][SaveNext]_vars

\* Two saves of one user interleaving at their awaits.
SaveRaceNext == \E p \in Procs : SaveCall(p, Racers) \/ SaveRunning(p)

SpecSaveRace == Init /\ [][SaveRaceNext]_vars


\* Logins of one identifier, one request at a time, while time passes.
LoginRunning(p) ==
    \/ Return(p)
    \/ ClGet(p) \/ LiAuth(p)
    \/ RfIncr(p) \/ RfExpire(p) \/ RfSetex(p) \/ RfDel(p)
    \/ CfDel(p) \/ UaDel(p)

LoginCall(p) ==
    \/ \E i \in Identifiers : LoginAttempt(p, i)
    \/ \E i \in Identifiers : UnlockAccount(p, i)

LoginNext == Tick \/ \E p \in {1} : LoginCall(p) \/ LoginRunning(p)

SpecLogin == Init /\ [][LoginNext]_vars

\* Login requests for one identifier, two in flight, where the awaited
\* redis.expire of recordFailedAttempt may reject.
LoginRaceRunning(p) ==
    \/ Return(p)
    \/ ClGet(p) \/ LiAuth(p)
    \/ RfIncr(p) \/ RfExpire(p) \/ RfExpireFails(p) \/ RfSetex(p) \/ RfDel(p)
    \/ CfDel(p)

LoginRaceCall(p) == \E i \in Identifiers : LoginAttempt(p, i)

LoginRaceNext == Tick \/ \E p \in Procs : LoginRaceCall(p) \/ LoginRaceRunning(p)

SpecLoginRace == Init /\ [][LoginRaceNext]_vars
\* Token refreshes while time passes. The tokens presented: access and
\* refresh tokens the server signed at some tick or seven days before the
\* start (expired by then), and tokens under another signature.
IssueTimes == {k * TickSeconds : k \in 0..MaxTicks} \cup {0 - ParseDuration(JWT_REFRESH_EXPIRES_IN)}
PresentedTokens ==
    {[userId |-> u, type |-> t, iat |-> n,
      exp |-> n + ParseDuration(IF t = "access" THEN JWT_EXPIRES_IN ELSE JWT_REFRESH_EXPIRES_IN),
      signature |-> s] :
        u \in {"u1"}, t \in {"access", "refresh"}, n \in IssueTimes,
        s \in {"JWT_SECRET", "forged"}}

RefreshNext ==
    \/ Tick
    \/ \E p \in Procs : Return(p) \/ \E r \in PresentedTokens : RefreshTokens(p, r)

SpecRefresh == Init /\ [][RefreshNext]_vars

\* The OAuth2 PKCE flow: authorizations and exchanges, two requests
\* interleaving at their awaits, while time passes.
\* A verifier is its text with its length and whether its characters are unreserved.
Verifiers ==
    {[text |-> "v1", length |-> 43, charsOk |-> TRUE],
     [text |-> "v2", length |-> 43, charsOk |-> TRUE],
     [text |-> "v3", length |-> 42, charsOk |-> TRUE]}
\* The challenge of v1, and a string that is too short for a challenge.
Challenges ==
    {GenerateCodeChallenge(v) : v \in {w \in Verifiers : w.text = "v1"}}
    \cup {[digest |-> <<"sha256", "v1">>, length |-> 42, charsOk |-> TRUE]}

OAuthRunning(p) == Return(p) \/ ExUser(p)

\* Codes are created for an account and for a user id without one.
AuthorizeCall(p) ==
    \E u \in {"u1", "u0"}, c \in Challenges : CreateAuthorizationCode(p, u, c)

\* Exchanges name the code of the first or of the second request, if that
\* request created one.
AuthCodes == {1, 2}

ExchangeCall(p) ==
    \E a \in AuthCodes, v \in Verifiers : ExchangeCodeForTokens(p, a, v)

OAuthNext ==
    \/ Tick
    \/ AuthorizeCall(1)
    \/ \E p \in Procs : ExchangeCall(p) \/ OAuthRunning(p)

SpecOAuth == Init /\ [][OAuthNext]_vars


\* The collection reference of bookmarks: bookmarks created, updated and bulk
\* moved and collections created and deleted by either user, one request at a time.
RefRunning(p) ==
    \/ Return(p)
    \/ GocFind(p) \/ GocCreate(p)
    \/ DcMove(p) \/ DcFind2(p) \/ DcDelete(p)
    \/ CbColl(p) \/ CbdCreate(p) \/ CbCreate(p)
    \/ UbFind(p) \/ UbUpdate(p)
    \/ BmColl(p) \/ BmMove(p)

RefCall(p) ==
    \/ \E u \in Users : CreateCollectionForUser(p, u, "A", FALSE)
    \/ \E u \in Users, id \in CollIds : DeleteCollectionForUser(p, id, u)
    \/ \E u \in Users, id \in CollIds \cup {0} : CreateBookmarkForUser(p, u, PageUrl, id, <<>>)
    \/ \E u \in Users, b \in BmIds, id \in CollIds : UpdateBookmarkForUser(p, b, u, id)
    \/ \E u \in Users, ids \in BulkSelections, m \in BulkMovePayloads :
          ExecuteBulkOperation(p, u, ids, "move", m)

RefNext == \E p \in {1} : RefCall(p) \/ RefRunning(p)

SpecRef == Init /\ [][RefNext]_vars


\* The default collection under contention: two requests of one user
\* interleaving, each of which may need the user's default collection.
DefaultRaceRunning(p) ==
    \/ Return(p)
    \/ GocFind(p) \/ GocCreate(p)
    \/ DcMove(p) \/ DcFind2(p) \/ DcDelete(p)
    \/ CbColl(p) \/ CbdCreate(p) \/ CbCreate(p)

DefaultRaceCall(p) ==
    \/ \E u \in Racers : CreateCollectionForUser(p, u, "A", FALSE)
    \/ \E u \in Racers : EnsureDefaultCollection(p, u)
    \/ \E u \in Racers : CreateBookmarkForUser(p, u, PageUrl, 0, <<>>)
    \/ \E u \in Racers, id \in CollIds : DeleteCollectionForUser(p, id, u)

DefaultRaceNext == \E p \in Procs : DefaultRaceCall(p) \/ DefaultRaceRunning(p)

SpecDefaultRace == Init /\ [][DefaultRaceNext]_vars

\* ------------------------------------------------- collection lifecycle
DeleteCalls == {p \in Procs : pc[p] = "done" /\ req[p].op = "deleteCollection"}
DefaultIds == {e[2] : e \in ensured}

\* C1: a delete of a collection the caller owns and that is not titled
\* "Unsorted" returns success with movedBookmarks = the number N of bookmarks the
\* collection held when the call was made; these N bookmarks all still exist and
\* reference an "Unsorted" collection of the caller, no bookmark at all has
\* disappeared, and the collection row is gone.
C1_DeleteMovesAllToUnsorted ==
    \A p \in DeleteCalls :
        res[p].code \notin {"COLLECTION_NOT_FOUND", "COLLECTION_CANNOT_DELETE_UNSORTED"} =>
            /\ res[p].code = "ok"
            /\ res[p].movedBookmarks = Cardinality(loc[p].pre)
            /\ loc[p].preAll \subseteq DOMAIN bookmarks
            /\ \A b \in loc[p].pre :
                   bookmarks[b].collectionId \in UnsortedOf(req[p].ownerId)
            /\ req[p].id \notin DOMAIN collections

\* C1 witness: a delete has returned success having moved two bookmarks.
C1_Witness ==
    \E p \in DeleteCalls :
        res[p].code = "ok" /\ res[p].movedBookmarks = 2 /\ Cardinality(loc[p].pre) = 2

\* C4: a delete request for a collection that was handed out as the caller's
\* default collection fails with CANNOT_DELETE_UNSORTED and the row stays.
C4_DefaultNeverDeleted ==
    \A p \in DeleteCalls :
        (<<req[p].ownerId, req[p].id>> \in ensured /\ res[p].code # "COLLECTION_NOT_FOUND") =>
            /\ res[p].code = "COLLECTION_CANNOT_DELETE_UNSORTED"
            /\ req[p].id \in DOMAIN collections

\* C5: a user for whom a default collection has been ensured owns exactly one
\* collection titled "Unsorted".
C5_ExactlyOneUnsorted ==
    \A e \in ensured : Cardinality(UnsortedOf(e[1])) = 1

\* C2: collection deletion is all-or-nothing: there is no state, in the middle
\* of a delete or after it has failed, in which bookmarks have been reassigned
\* by the delete while the collection row still exists.
C2_DeleteAtomic ==
    \A p \in Procs :
        (req[p].op = "deleteCollection" /\ pc[p] # "idle" /\ "moved" \in DOMAIN loc[p]
            /\ loc[p].moved # {}) => req[p].id \notin DOMAIN collections

C6_SlugIffPublic ==
    \A c \in DOMAIN collections :
        (collections[c].shareSlug # None) <=> collections[c].isPublic

\* C7: no two distinct collections hold the same non-null shareSlug.
C7_SlugsUnique ==
    \A c, d \in DOMAIN collections :
        (c # d /\ collections[c].shareSlug # None) =>
            collections[c].shareSlug # collections[d].shareSlug

\* C7 witness: two makePublic calls on different collections drew the same
\* candidate slug; one has succeeded with it, the other has failed.
C7_Witness ==
    \E p, q \in Procs :
        /\ pc[p] = "done" /\ req[p].op = "makePublic" /\ res[p].code = "ok"
        /\ pc[q] = "done" /\ req[q].op = "makePublic"
        /\ res[q].code = "COLLECTION_SLUG_GENERATION_FAILED"
        /\ req[p].id # req[q].id
        /\ loc[q].attempt = 0
        /\ loc[q].shareSlug = res[p].shareSlug

\* ---------------------------------------------------------------- tags
MergeCalls == {p \in Procs : pc[p] = "done" /\ req[p].op = "mergeTags"
                                /\ res[p].code = "ok"}

\* C8: when a merge of source into target has succeeded, with a bookmarks that
\* had only the source tag, b only the target tag and c both, the target tag
\* is on exactly those a + b + c bookmarks, no (bookmark, tag) pair is stored
\* twice, and the source tag and its associations are gone.
C8_MergeUnion ==
    \A p \in MergeCalls :
        LET S == loc[p].preSource
            T == loc[p].preTarget
        IN /\ GetBookmarkIdsByTag(req[p].targetTagId) = S \cup T
           /\ CountRowsByTag(req[p].targetTagId)
                = Cardinality(S \ T) + Cardinality(T \ S) + Cardinality(S \cap T)
           /\ \A r \in BagToSet(bookmarkTags) : CopiesIn(r, bookmarkTags) = 1
           /\ req[p].sourceTagId \notin DOMAIN tags
           /\ GetBookmarkIdsByTag(req[p].sourceTagId) = {}

\* C8 witness: a merge has succeeded where a, b and c were all at least one.
C8_Witness ==
    \E p \in MergeCalls :
        /\ loc[p].preSource \ loc[p].preTarget # {}
        /\ loc[p].preTarget \ loc[p].preSource # {}
        /\ loc[p].preSource \cap loc[p].preTarget # {}
        /\ Cardinality(GetBookmarkIdsByTag(req[p].targetTagId)) = 3

\* C9 as stated: a successful merge returns the number of distinct bookmarks
\* associated with either tag, |source \cup target|.
C9_ReturnsUnionSize ==
    \A p \in MergeCalls :
        res[p].affectedBookmarks
            = Cardinality(loc[p].preSource \cup loc[p].preTarget)

\* C9 as the code has it: a successful merge returns the number of bookmarks
\* that were associated with the source tag, a + c.
C9_ReturnsSourceCount ==
    \A p \in MergeCalls :
        res[p].affectedBookmarks
            = Cardinality(loc[p].preSource \ loc[p].preTarget)
              + Cardinality(loc[p].preSource \cap loc[p].preTarget)

\* C9 witness: a merge has succeeded where the source had bookmarks and the
\* target had a bookmark the source did not have.
C9_Witness ==
    \E p \in MergeCalls :
        /\ loc[p].preSource # {}
        /\ loc[p].preTarget \ loc[p].preSource # {}
        /\ res[p].affectedBookmarks = Cardinality(loc[p].preSource)
        /\ res[p].affectedBookmarks
             < Cardinality(GetBookmarkIdsByTag(req[p].targetTagId))

\* C10: a merge is atomic: no state shows the target already given the
\* source's bookmarks while the source tag still exists, and a merge that has
\* ended in a failure has left no new association on the target.
C10_MergeAtomic ==
    \A p \in Procs :
        (req[p].op = "mergeTags" /\ "linked" \in DOMAIN loc[p] /\ loc[p].linked # {})
        => /\ req[p].sourceTagId \notin DOMAIN tags
           /\ pc[p] = "done" => res[p].code = "ok"

\* ------------------------------------------------------- bulk operations
BulkCalls == {p \in Procs : pc[p] = "done" /\ req[p].op = "bulk" /\ res[p].code = "ok"}

\* The caller's bookmarks when the call was made, and the selected ones among them.
OwnedBefore(p) ==
    {b \in DOMAIN loc[p].preBookmarks : loc[p].preBookmarks[b].ownerId = req[p].ownerId}
Filtered(p) == OwnedBefore(p) \cap req[p].bookmarkIds

TagsOf(b, rows) == {r[2] : r \in {x \in BagToSet(rows) : x[1] = b}}

\* Bookmark b is as it was before call p on the field that p's action mutates.
UnchangedOnField(p, b) ==
    LET a == req[p].action
        before == loc[p].preBookmarks[b]
    IN IF a = "delete" THEN b \in DOMAIN bookmarks
       ELSE IF a \in {"addTags", "removeTags"}
       THEN TagsOf(b, bookmarkTags) = TagsOf(b, loc[p].preTags)
       ELSE /\ b \in DOMAIN bookmarks
            /\ IF a = "move" THEN bookmarks[b].collectionId = before.collectionId
               ELSE IF a = "reorder" THEN bookmarks[b].sortOrder = before.sortOrder
               ELSE bookmarks[b].isFavorite = before.isFavorite

\* C11: a successful bulk action whose N selected ids are all bookmarks of the
\* caller reports affectedCount = N and leaves the caller's unselected
\* bookmarks unchanged on the field the action mutates.
C11_BulkAffectsSelectedOnly ==
    \A p \in BulkCalls :
        req[p].bookmarkIds \subseteq OwnedBefore(p) =>
            /\ res[p].affectedCount = Cardinality(req[p].bookmarkIds)
            /\ \A b \in OwnedBefore(p) \ req[p].bookmarkIds : UnchangedOnField(p, b)

\* C12: while and after a bulk action runs, every bookmark of a user other
\* than the caller is still there, row and tag associations as they were.
C12_OthersUntouched ==
    \A p \in Procs :
        req[p].op = "bulk" =>
            \A b \in DOMAIN loc[p].preBookmarks \ OwnedBefore(p) :
                /\ b \in DOMAIN bookmarks
                /\ bookmarks[b] = loc[p].preBookmarks[b]
                /\ {r \in BagToSet(bookmarkTags) : r[1] = b}
                     = {r \in BagToSet(loc[p].preTags) : r[1] = b}
                /\ \A r \in BagToSet(bookmarkTags) :
                       r[1] = b => bookmarkTags[r] = loc[p].preTags[r]

\* C12 witness: a bulk reorder has succeeded whose itemIds and orders both
\* name a tagged bookmark of another user.
C12_Witness ==
    \E p \in BulkCalls :
        /\ req[p].action = "reorder"
        /\ \E b \in req[p].bookmarkIds \ OwnedBefore(p) :
              /\ b \in DOMAIN loc[p].preBookmarks
              /\ TagsOf(b, bookmarkTags) # {}
              /\ \E i \in DOMAIN req[p].orders : req[p].orders[i][1] = b

\* The sortOrder the orders give bookmark b: that of the last pair naming it.
LastOrderFor(orders, b) ==
    LET is == {i \in DOMAIN orders : orders[i][1] = b}
    IN orders[CHOOSE i \in is : \A j \in is : j <= i][2]

\* C13: a successful bulk reorder leaves each bookmark of the filtered set
\* that a pair names with the sortOrder given, and changes the sortOrder of
\* no other bookmark.
C13_ReorderFilteredOnly ==
    \A p \in BulkCalls :
        req[p].action = "reorder" =>
            \A b \in DOMAIN loc[p].preBookmarks :
                /\ b \in DOMAIN bookmarks
                /\ IF b \in Filtered(p) /\ \E i \in DOMAIN req[p].orders : req[p].orders[i][1] = b
                   THEN bookmarks[b].sortOrder = LastOrderFor(req[p].orders, b)
                   ELSE bookmarks[b].sortOrder = loc[p].preBookmarks[b].sortOrder

\* C14: a reorder is all-or-nothing.  The sortOrder of a bookmark changes only
\* in the step in which a reorder's transaction commits, and in that step
\* every write of the transaction reaches the table; a transaction that fails
\* changes nothing, whatever it had written.
C14_ReorderAllOrNothing ==
    [][(\E b \in DOMAIN bookmarks \cap DOMAIN bookmarks' :
            bookmarks'[b].sortOrder # bookmarks[b].sortOrder)
       => \E p \in Procs :
             /\ pc[p] = "bo_commit" /\ pc'[p] = "done" /\ res'[p].code = "ok"
             /\ \A c \in DOMAIN loc[p].tx \cap DOMAIN bookmarks' :
                    bookmarks'[c].sortOrder = loc[p].tx[c]]_vars

\* C14 witness: a reorder has failed after its transaction had written two
\* pairs, and the table shows neither write.
C14_Witness ==
    \E p \in Procs :
        /\ pc[p] = "done" /\ res[p].code = "THROWN"
        /\ req[p].op \in {"bulk", "reorder"}
        /\ Cardinality(DOMAIN loc[p].tx) = 2
        /\ \A b \in DOMAIN loc[p].tx :
              b \in DOMAIN bookmarks /\ bookmarks[b].sortOrder # loc[p].tx[b]

\* ------------------------------------------------------ permission engine
\* The access checks that have returned.
CheckDone(p, op) == pc[p] = "done" /\ req[p].op = op

\* The collection the request addressed, as the request found it, was public or not
\* and the principal was not its owner.
NonOwnerOf(p, public) ==
    /\ req[p].id \in DOMAIN loc[p].seen.collections
    /\ loc[p].seen.collections[req[p].id].isPublic = public
    /\ loc[p].seen.collections[req[p].id].ownerId # req[p].userId

\* C15: on a public collection every access check answers canView = true and
\* canEdit = false to every principal but the owner: to an anonymous caller, to
\* a user without a permission row, to a viewer and to an editor.
C15_PublicViewOnly ==
    \A p \in Procs :
        /\ CheckDone(p, "checkCollectionAccess") /\ NonOwnerOf(p, TRUE)
              => res[p].canView /\ ~res[p].canEdit
        /\ CheckDone(p, "canViewCollection") /\ NonOwnerOf(p, TRUE) => res[p].value
        /\ CheckDone(p, "canEditCollection") /\ NonOwnerOf(p, TRUE) => ~res[p].value

\* The permission row of the principal on the collection (none or one).
RowOf(perms, p) == {perms[k] : k \in DOMAIN perms \cap {<<req[p].id, req[p].userId>>}}

\* No grant or revocation touched that row while the request was running.
RowStable(p) == RowOf(loc[p].seen.permissions, p) = RowOf(permissions, p)

\* The principal holds a row with that role.
Holds(p, role) == \E row \in RowOf(permissions, p) : row.role = role

\* The step in which a check reads the principal's role and answers.
Answers(p, op, label) == pc[p] = label /\ pc'[p] = "done" /\ req[p].op = op

\* C16: on a non-public collection a principal who is not the owner gets
\* canView = true and canEdit = false with a viewer row, both true with an editor
\* row, and both false without a row (the row being the one in the table when
\* the request reads it).
C16_RoleDerivesAccess ==
    [][\A p \in Procs :
        /\ Answers(p, "checkCollectionAccess", "ca_role") /\ NonOwnerOf(p, FALSE)
              => /\ res'[p].canView = (Holds(p, "VIEWER") \/ Holds(p, "EDITOR"))
                 /\ res'[p].canEdit = Holds(p, "EDITOR")
        /\ Answers(p, "canViewCollection", "cv_role") /\ NonOwnerOf(p, FALSE)
              => res'[p].value = (Holds(p, "VIEWER") \/ Holds(p, "EDITOR"))
        /\ Answers(p, "canEditCollection", "ce_role") /\ NonOwnerOf(p, FALSE)
              => res'[p].value = Holds(p, "EDITOR")]_vars

\* A viewer was answered: it may view and may not edit.
C16_Witness ==
    \E p \in Procs :
        /\ CheckDone(p, "checkCollectionAccess") /\ NonOwnerOf(p, FALSE) /\ RowStable(p)
        /\ Holds(p, "VIEWER")
        /\ res[p].canView /\ ~res[p].canEdit

\* The request p began after a revocation of its principal's row had
\* succeeded, and nothing was granted since: the revocation's answer still stands.
AfterRevoke(p) ==
    \E q \in Procs :
        /\ pc[q] = "done" /\ req[q].op = "revokeShare" /\ res[q].code = "ok"
        /\ req[q].id = req[p].id /\ req[q].userId = req[p].userId
        /\ <<loc[q].seen.n, req[q].id, req[q].userId>> \in loc[p].seen.revoked

\* C17: once revokeShare has succeeded for a principal on a non-public
\* collection, every access check that begins afterwards answers canView = false
\* and canEdit = false to that principal.
C17_RevokedLosesAccess ==
    \A p \in Procs :
        /\ CheckDone(p, "checkCollectionAccess") /\ NonOwnerOf(p, FALSE) /\ AfterRevoke(p)
              => ~res[p].hasAccess /\ ~res[p].canView /\ ~res[p].canEdit
        /\ CheckDone(p, "canViewCollection") /\ NonOwnerOf(p, FALSE) /\ AfterRevoke(p)
              => ~res[p].value
        /\ CheckDone(p, "canEditCollection") /\ NonOwnerOf(p, FALSE) /\ AfterRevoke(p)
              => ~res[p].value

\* A principal that held a row was revoked and then checked.
C17_Witness ==
    \E p \in Procs :
        /\ CheckDone(p, "checkCollectionAccess") /\ NonOwnerOf(p, FALSE) /\ AfterRevoke(p)
        /\ RowOf(loc[p].seen.permissions, p) = {}
        /\ ~res[p].canView

\* The sharing operations that address a collection by id on behalf of a caller.
ByIdOps == {"shareCollection", "revokeShare", "listCollectionShares"}

\* C18: a caller who does not own the collection it addresses gets the same
\* outcome whether the collection exists under another owner or does not exist
\* at all: the outcome of the missing collection, in both situations.
C18_NotOwnedLooksMissing ==
    \A p \in Procs :
        pc[p] = "done" /\ req[p].op \in ByIdOps
        => /\ req[p].id \notin DOMAIN loc[p].seen.collections
                => res[p] = [code |-> "COLLECTION_NOT_FOUND"]
           /\ (/\ req[p].id \in DOMAIN loc[p].seen.collections
               /\ loc[p].seen.collections[req[p].id].ownerId # req[p].ownerId)
                => res[p] = [code |-> "COLLECTION_NOT_FOUND"]

\* ---------------------------------------------------- duplicate detection
\* Bookmark `a' was stored before bookmark `b', for the same user and under the
\* same normalized URL (ids are handed out in the order of the inserts, and no
\* bookmark is deleted here).
EarlierTwin(a, b) ==
    /\ a < b
    /\ bookmarks[a].ownerId = bookmarks[b].ownerId
    /\ bookmarks[a].normalizedUrl = bookmarks[b].normalizedUrl

\* C19: a bookmark is flagged isDuplicate exactly when, at its creation, the
\* same user already had a bookmark with the same normalizedUrl; two concurrent
\* saves of one URL are therefore never both stored unflagged.
C19_DuplicateFlagExact ==
    \A b \in DOMAIN bookmarks :
        bookmarks[b].isDuplicate = (\E a \in DOMAIN bookmarks : EarlierTwin(a, b))

\* C20: of two saves by one user, one after the other, under URLs that
\* normalize alike, the first is stored with isDuplicate = false and the second
\* with isDuplicate = true.
C20_SecondSaveFlagged ==
    \A a \in DOMAIN bookmarks, b \in DOMAIN bookmarks :
        EarlierTwin(a, b) /\ (\A c \in DOMAIN bookmarks : ~EarlierTwin(c, a))
        => ~bookmarks[a].isDuplicate /\ bookmarks[b].isDuplicate

\* Two URLs that differ as strings were saved in turn and flagged false, true.
C20_Witness ==
    /\ NormalizeURL(TrackedUrl) = NormalizeURL(PageUrl)
    /\ TrackedUrl # PageUrl
    /\ \E p \in Procs :
          /\ pc[p] = "done" /\ req[p].op = "createBookmark" /\ res[p].code = "ok"
          /\ req[p].url = PageUrl
          /\ bookmarks[res[p].id].isDuplicate
          /\ \E a \in DOMAIN bookmarks :
                /\ EarlierTwin(a, res[p].id)
                /\ ~bookmarks[a].isDuplicate

\* ---------------------------------------------------------- tag uniqueness
\* C21: no user ever owns two tags with the same normalizedName, whichever of
\* createTag, a save with tags, bulk addTags and a rename write the name, and
\* however two of them interleave.
C21_TagNamesUnique ==
    \A s \in DOMAIN tags, t \in DOMAIN tags :
        (tags[s].ownerId = tags[t].ownerId /\ tags[s].normalizedName = tags[t].normalizedName)
        => s = t

\* Two requests raced for one name: one wrote the tag, the other was refused
\* by the unique index.
C21_Witness ==
    \E p \in Procs, q \in Procs, t \in DOMAIN tags :
        /\ pc[p] = "done" /\ res[p].code = "THROWN"
        /\ req[p].op \in {"createTag", "createBookmark", "bulk", "updateTag"}
        /\ pc[q] = "done" /\ res[q].code = "ok" /\ req[q].op = "createTag"
        /\ res[q].id = t
        /\ tags[t].normalizedName = <<"a">>

\* ---------------------------------------------------------- url normalizer
\* C22: normalize(normalize(u)) = normalize(u) for every valid URL u, those
\* with a repeated query key included.
C22_NormalizeIdempotent ==
    \A p \in Procs :
        (pc[p] = "again" /\ req[p].op = "normalizeURL") => res[p].again = res[p].url

\* The positions of the query's non-tracking occurrences.
Kept(search) == {i \in 1..Len(search) : ~IsTrackingKey(search[i][1])}

\* `out' holds exactly the occurrences of `search' at the positions `kept',
\* each once, ordered by key, those of one key in their order in `search'.
IsStableSortOf(out, search, kept) ==
    /\ Len(out) = Cardinality(kept)
    /\ \E f \in [1..Len(out) -> kept] :
          /\ \A i \in 1..Len(out) : out[i] = search[f[i]]
          /\ \A i \in 1..Len(out), j \in 1..Len(out) :
                i < j => /\ f[i] # f[j]
                         /\ KeyRank(out[i][1]) <= KeyRank(out[j][1])
                         /\ out[i][1] = out[j][1] => f[i] < f[j]

\* C23: the query of normalize(u) is exactly the non-tracking occurrences of
\* u's query, each once, ordered by key, repeated keys in their original order.
C23_QueryStableSorted ==
    \A p \in Procs :
        (pc[p] = "done" /\ req[p].op = "normalizeURL" /\ res[p].code = "ok")
        => IsStableSortOf(res[p].url.search, req[p].url.search, Kept(req[p].url.search))

\* ------------------------------------------------------------ makePublic
\* C24: makePublic on a collection of the caller that is public under a slug
\* answers at once with that slug and writes nothing, call after call.
C24_MakePublicIdempotent ==
    [][\A p \in Procs :
        (/\ pc[p] = "idle" /\ pc'[p] # "idle" /\ req'[p].op = "makePublic"
         /\ FindCollectionByIdAndOwner(req'[p].id, req'[p].ownerId) # {}
         /\ collections[req'[p].id].isPublic
         /\ collections[req'[p].id].shareSlug # None)
        => /\ pc'[p] = "done"
           /\ res'[p].code = "ok"
           /\ res'[p].shareSlug = collections[req'[p].id].shareSlug
           /\ collections' = collections]_vars

\* A second makePublic has answered with the slug the collection already had.
C24_Witness ==
    \E p \in Procs :
        /\ pc[p] = "done" /\ req[p].op = "makePublic" /\ res[p].code = "ok"
        /\ loc[p] = NoLoc
        /\ collections[req[p].id].isPublic
        /\ collections[req[p].id].shareSlug = res[p].shareSlug

\* Request p takes a step of the slug loop.
SlugLoopStep(p) == pc[p] = "mp_gen" /\ (pc'[p] # pc[p] \/ loc'[p] # loc[p])

\* C25: slug generation makes at most MaxAttempts attempts, writing nothing;
\* when the last candidate collides too, makePublic fails with
\* SLUG_GENERATION_FAILED and the collection is as it was.
C25_SlugAttemptsBounded ==
    [][\A p \in Procs :
        SlugLoopStep(p)
        => /\ loc[p].attempt < MaxAttempts
           /\ collections' = collections
           /\ pc'[p] = "mp_gen" => loc'[p].attempt = loc[p].attempt + 1
           /\ pc'[p] = "done"
                => /\ loc[p].attempt = MaxAttempts - 1
                   /\ res'[p].code = "COLLECTION_SLUG_GENERATION_FAILED"]_vars

\* Every one of the MaxAttempts candidates collided, and the call failed on a
\* collection that is still private and without a slug.
C25_Witness ==
    \E p \in Procs :
        /\ pc[p] = "done" /\ req[p].op = "makePublic"
        /\ res[p].code = "COLLECTION_SLUG_GENERATION_FAILED"
        /\ loc[p].attempt = MaxAttempts - 1 /\ loc[p].shareSlug = None
        /\ ~collections[req[p].id].isPublic
        /\ collections[req[p].id].shareSlug = None

\* ------------------------------------------------------- merge failures
\* The tag is missing, or is another user's.
NotTagOf(id, ownerId) == id \notin DOMAIN tags \/ tags[id].ownerId # ownerId

\* C26: a merge of a tag into itself fails with SAME_TAG; otherwise a source
\* that is missing or not the caller's fails it with SOURCE_NOT_FOUND; otherwise
\* a target that is missing or not the caller's fails it with TARGET_NOT_FOUND;
\* and the failing call writes no tag and no association.
C26_MergeFailures ==
    [][\A p \in Procs :
        /\ (pc[p] = "idle" /\ pc'[p] # "idle" /\ req'[p].op = "mergeTags")
           => /\ req'[p].sourceTagId = req'[p].targetTagId
                   => pc'[p] = "done" /\ res'[p].code = "TAG_MERGE_SAME_TAG"
              /\ (/\ req'[p].sourceTagId # req'[p].targetTagId
                  /\ NotTagOf(req'[p].sourceTagId, req'[p].ownerId))
                   => pc'[p] = "done" /\ res'[p].code = "TAG_SOURCE_NOT_FOUND"
              /\ pc'[p] = "done" => tags' = tags /\ bookmarkTags' = bookmarkTags
        /\ (pc[p] = "mt_tgt" /\ pc'[p] # "mt_tgt")
           => /\ NotTagOf(req[p].targetTagId, req[p].ownerId)
                   => pc'[p] = "done" /\ res'[p].code = "TAG_TARGET_NOT_FOUND"
              /\ pc'[p] = "done" => tags' = tags /\ bookmarkTags' = bookmarkTags]_vars

\* A merge into another user's tag was refused.
C26_Witness ==
    \E p \in Procs :
        /\ pc[p] = "done" /\ req[p].op = "mergeTags"
        /\ res[p].code = "TAG_TARGET_NOT_FOUND"
        /\ req[p].targetTagId \in DOMAIN tags
        /\ tags[req[p].targetTagId].ownerId # req[p].ownerId
        /\ req[p].sourceTagId \in DOMAIN tags

\* ------------------------------------------------- bulk: the id filter
\* The ids among bookmarkIds that are bookmarks of ownerId now.
OwnedAmong(bookmarkIds, ownerId) ==
    {b \in bookmarkIds : b \in DOMAIN bookmarks /\ bookmarks[b].ownerId = ownerId}

\* C27: a bulk call works on the ids of itemIds that are bookmarks of the
\* caller and drops the others without failing for them; it fails with
\* NO_BOOKMARKS exactly when none is the caller's, at its first step, and
\* then no table has changed.
C27_ForeignIdsDropped ==
    [][\A p \in Procs :
        /\ (pc[p] = "idle" /\ pc'[p] # "idle" /\ req'[p].op = "bulk")
           => LET valid == OwnedAmong(req'[p].bookmarkIds, req'[p].ownerId)
              IN /\ loc'[p].valid = valid
                 /\ valid = {} => /\ pc'[p] = "done"
                                  /\ res'[p].code = "BULK_NO_BOOKMARKS"
                                  /\ UNCHANGED dbVars
                 /\ valid # {} => ~(pc'[p] = "done" /\ res'[p].code = "BULK_NO_BOOKMARKS")
        /\ (/\ pc[p] # "done" /\ pc'[p] = "done" /\ req'[p].op = "bulk"
            /\ res'[p].code = "BULK_NO_BOOKMARKS")
           => pc[p] = "idle"]_vars

\* A bulk action has succeeded on itemIds naming a bookmark of the caller and
\* a bookmark of another user.
C27_Witness ==
    \E p \in BulkCalls :
        /\ Filtered(p) # {}
        /\ \E b \in req[p].bookmarkIds \ Filtered(p) : b \in DOMAIN loc[p].preBookmarks
        /\ req[p].action # "reorder"
        /\ res[p].affectedCount = Cardinality(Filtered(p))

\* ------------------------------------------------------------ bulk move
\* The collection is missing (or none was named), or is another user's.
NotCollectionOf(id, ownerId) ==
    id \notin DOMAIN collections \/ collections[id].ownerId # ownerId

\* C28: a bulk move on a non-empty filtered set fails with
\* COLLECTION_NOT_FOUND when the target is missing or not the caller's, and
\* then every bookmark has the collectionId it had; otherwise it succeeds and
\* every bookmark of the filtered set references the target.
C28_BulkMoveTarget ==
    \A p \in Procs :
        (/\ pc[p] = "done" /\ req[p].op = "bulk" /\ req[p].action = "move"
         /\ Filtered(p) # {})
        => IF NotCollectionOf(req[p].collectionId, req[p].ownerId)
           THEN /\ res[p].code = "BULK_COLLECTION_NOT_FOUND"
                /\ DOMAIN bookmarks = DOMAIN loc[p].preBookmarks
                /\ \A b \in DOMAIN bookmarks :
                       bookmarks[b].collectionId = loc[p].preBookmarks[b].collectionId
           ELSE /\ res[p].code = "ok"
                /\ \A b \in Filtered(p) :
                       /\ b \in DOMAIN bookmarks
                       /\ bookmarks[b].collectionId = req[p].collectionId

\* A bulk move of a bookmark of the caller into another user's collection
\* was refused.
C28_Witness ==
    \E p \in Procs :
        /\ pc[p] = "done" /\ req[p].op = "bulk" /\ req[p].action = "move"
        /\ Filtered(p) # {}
        /\ res[p].code = "BULK_COLLECTION_NOT_FOUND"
        /\ req[p].collectionId \in DOMAIN collections

\* ------------------------------------------- saving into a collection
\* C29: a save that names a collection which is missing or not the caller's
\* ends at the collection lookup with COLLECTION_NOT_FOUND, and neither that
\* step nor the call's first step writes to any table; a save that names a
\* collection of the caller goes on to create the bookmark.
C29_UnknownCollectionRefused ==
    [][\A p \in Procs :
        /\ (pc[p] = "idle" /\ pc'[p] = "cb_coll") => UNCHANGED dbVars
        /\ (pc[p] = "cb_coll" /\ pc'[p] # "cb_coll" /\ req[p].collectionId # 0)
           => IF NotCollectionOf(req[p].collectionId, req[p].ownerId)
              THEN /\ pc'[p] = "done"
                   /\ res'[p].code = "COLLECTION_NOT_FOUND"
                   /\ UNCHANGED dbVars
              ELSE pc'[p] = "cb_create"]_vars

\* A tagged save into another user's collection was refused.
C29_Witness ==
    \E p \in Procs :
        /\ pc[p] = "done" /\ req[p].op = "createBookmark"
        /\ res[p].code = "COLLECTION_NOT_FOUND"
        /\ req[p].collectionId \in DOMAIN collections
        /\ req[p].tags # <<>>

\* ------------------------------------------------- storage failures
\* C30: a request that ended because the storage rejected one of its queries
\* answers with the kind STORAGE_UNAVAILABLE, not with a domain kind.
C30_StorageUnavailableKind ==
    \A p \in Procs :
        (pc[p] = "done" /\ loc[p] = StorageFailed)
        => res[p].code = "STORAGE_UNAVAILABLE"

\* ------------------------------------------------- the owner has no row
\* No permission row names the owner of its collection.
NoOwnerRow ==
    \A k \in DOMAIN permissions :
        k[1] \in DOMAIN collections => collections[k[1]].ownerId # k[2]

\* The step in which p's shareCollection of its own collection with itself
\* (the collection is there and is the caller's) gets past its first tests.
SelfShareStep(p) ==
    /\ pc[p] = "idle" /\ pc'[p] # "idle"
    /\ req'[p].op = "shareCollection"
    /\ req'[p].userId = req'[p].ownerId
    /\ req'[p].id \in DOMAIN collections
    /\ collections[req'[p].id].ownerId = req'[p].ownerId

\* C31: no CollectionPermission row has the owner of its collection as its
\* userId, and a share of a collection with its own owner is rejected with
\* CANNOT_SHARE_WITH_SELF in its first step, without a write.
C31_OwnerNeverGranted ==
    /\ []NoOwnerRow
    /\ [][\A p \in Procs :
            SelfShareStep(p) => /\ pc'[p] = "done"
                                /\ res'[p].code = "CANNOT_SHARE_WITH_SELF"
                                /\ UNCHANGED dbVars]_vars

\* An owner's share with themself was refused while the collection is shared
\* with the other user.
C31_Witness ==
    \E p \in Procs :
        /\ pc[p] = "done" /\ req[p].op = "shareCollection"
        /\ res[p].code = "CANNOT_SHARE_WITH_SELF"
        /\ \E k \in DOMAIN permissions : k[1] = req[p].id

\* ------------------------------------------------------- login lockout
\* The invalid submissions of the last 15 minutes.
RecentFailures == {i \in DOMAIN failTimes : failTimes[i] + LOCKOUT_WINDOW_SECONDS > now}

\* C32: once a failed login has been recorded that is the sixth or later
\* invalid submission within 15 minutes (none followed by a successful login
\* or an unlock), the identifier is locked.
C32_LockedAfterFiveFailures ==
    \A p \in Procs :
        (/\ pc[p] = "done" /\ req[p].op = "login" /\ res[p].code = "AUTH_FAILED"
         /\ Cardinality(RecentFailures) > MAX_FAILED_ATTEMPTS)
        => RedisTtl(LockoutKey(req[p].identifier)) > 0

\* ---------------------------------------------------------------- oauth
\* The step in which p's exchange passes the PKCE verification.
PassesVerification(p) ==
    /\ pc[p] = "idle" /\ pc'[p] = "ex_user"
    /\ req'[p].op = "exchangeCodeForTokens"

\* C33: an exchange yields tokens only after passing the verification, and it
\* passes only when the SHA-256 challenge of the verifier supplied is the
\* challenge the code was created with.
C33_PkceVerifierMatches ==
    [][\A p \in Procs :
        /\ PassesVerification(p)
           => /\ req'[p].authorizationCode \in DOMAIN bound
              /\ GenerateCodeChallenge(req'[p].codeVerifier)
                   = bound[req'[p].authorizationCode]
        /\ (/\ pc[p] # "done" /\ pc'[p] = "done"
            /\ req'[p].op = "exchangeCodeForTokens" /\ res'[p].code = "ok")
           => /\ pc[p] = "ex_user"
              /\ GenerateCodeChallenge(req[p].codeVerifier)
                   = bound[req[p].authorizationCode]]_vars

\* An exchange of a code has yielded tokens while another exchange of the
\* same code, with another verifier, was refused.
C33_Witness ==
    \E p \in Procs, q \in Procs :
        /\ pc[p] = "done" /\ req[p].op = "exchangeCodeForTokens" /\ res[p].code = "ok"
        /\ pc[q] = "done" /\ req[q].op = "exchangeCodeForTokens"
        /\ res[q].code = "OAUTH_PKCE_VERIFICATION_FAILED"
        /\ req[q].authorizationCode = req[p].authorizationCode

\* C37: no authorization code has yielded tokens more than once.
C37_CodeSingleUse ==
    \A i \in DOMAIN granted : \A j \in DOMAIN granted :
        granted[i] = granted[j] => i = j

\* A code has yielded tokens, and a later exchange of it, with the right
\* verifier, was refused.
C37_Witness ==
    \E p \in Procs :
        /\ pc[p] = "done" /\ req[p].op = "exchangeCodeForTokens"
        /\ res[p].code = "OAUTH_INVALID_AUTH_CODE"
        /\ \E i \in DOMAIN granted : granted[i] = req[p].authorizationCode
        /\ GenerateCodeChallenge(req[p].codeVerifier) = bound[req[p].authorizationCode]

\* ------------------------------------------------ collection reference
\* C34: every bookmark references a collection (never none), the collection
\* exists, and it belongs to the bookmark's owner.
C34_BookmarkCollectionOwned ==
    \A b \in DOMAIN bookmarks :
        /\ bookmarks[b].collectionId # 0
        /\ bookmarks[b].collectionId \in DOMAIN collections
        /\ collections[bookmarks[b].collectionId].ownerId = bookmarks[b].ownerId

\* A collection delete has moved a bookmark into its owner's default collection.
C34_Witness ==
    \E p \in Procs :
        /\ pc[p] = "done" /\ req[p].op = "deleteCollection" /\ res[p].code = "ok"
        /\ res[p].movedBookmarks >= 1
        /\ \E b \in DOMAIN bookmarks : bookmarks[b].ownerId = req[p].ownerId

\* ---------------------------------------------- default collection race
\* C35: however two requests needing a user's default collection interleave,
\* the user has at most one collection titled "Unsorted" and every request
\* was handed that same collection.
C35_OneDefaultUnderRace ==
    /\ \A u \in Users : Cardinality(UnsortedOf(u)) <= 1
    /\ \A e \in ensured : \A f \in ensured : e[1] = f[1] => e[2] = f[2]

\* ------------------------------------------------ merge and concurrent tagging
\* The step in which the merge of request p removes its source tag.
SourceRemoved(p) ==
    /\ pc[p] = "mt_delete" /\ pc'[p] = "done"
    /\ res'[p].code = "ok"

\* C36: an association another request adds to the source tag while a merge
\* is in progress is not lost: every bookmark that carries the source tag when
\* the merge removes it carries the target tag once the merge has completed.
C36_ConcurrentAssociationKept ==
    [][\A p \in Procs :
          SourceRemoved(p)
          => \A b \in GetBookmarkIdsByTag(req[p].sourceTagId) :
                <<b, req[p].targetTagId>> \in DOMAIN bookmarkTags']_vars

\* ------------------------------------------------------- when a lock is set
\* The identifier has a lockout key.
Locked(identifier) == LockoutKey(identifier) \in DOMAIN redis

\* C38: an identifier becomes locked only in the step of a recorded failed
\* attempt that brought its failure counter to at least 5, and at least 5
\* invalid submissions have been made since the last successful login or unlock.
C38_LockedOnlyAtFive ==
    [][\A i \in Identifiers :
          (~Locked(i) /\ Locked(i)')
          => /\ \E p \in Procs :
                   /\ pc[p] = "rf_setex" /\ pc'[p] = "rf_del"
                   /\ req[p].identifier = i
                   /\ loc[p].newCount >= MAX_FAILED_ATTEMPTS
             /\ Len(failTimes) >= MAX_FAILED_ATTEMPTS]_vars

C38_Witness ==
    \E p \in Procs :
        /\ pc[p] = "done" /\ req[p].op = "login"
        /\ res[p].code = "AUTH_FAILED" /\ res[p].locked
        /\ Locked(req[p].identifier)
        /\ Len(failTimes) = MAX_FAILED_ATTEMPTS

\* -------------------------------------------------- the counter's expiry
\* A recordFailedAttempt for the identifier is between its incr and its expire.
SettingExpiry(identifier) ==
    \E p \in Procs : pc[p] = "rf_expire" /\ req[p].identifier = identifier

\* C39: a failure counter that exists carries an expiry (so that its failures
\* stop counting 15 minutes after the first of them), whenever no
\* recordFailedAttempt for the identifier is about to set it: also after one
\* was interrupted between the incr and the expire, and with two running.
C39_CounterCarriesExpiry ==
    \A i \in Identifiers :
        (FailedKey(i) \in DOMAIN redis /\ ~SettingExpiry(i))
        => redis[FailedKey(i)].expiresAt # 0

\* ------------------------------------------------------- token rotation
\* Request q has been answered with a new pair for refresh token r.
Rotated(q, r) ==
    /\ pc[q] = "done" /\ req[q].op = "refreshTokens"
    /\ req[q].refreshToken = r /\ res[q].code = "ok"

\* C40: once refreshTokens has answered a refresh token with a new pair, a
\* later refreshTokens with the same refresh token fails.
C40_RotatedTokenRefused ==
    [][\A p \in Procs :
          (/\ pc[p] = "idle" /\ pc'[p] = "done"
           /\ req'[p].op = "refreshTokens"
           /\ \E q \in Procs \ {p} : Rotated(q, req'[p].refreshToken))
          => res'[p].code = "null"]_vars

====
